---- MODULE Spec2Model ----
(***************************************************************************)
(* Model of cron-manager.py (class CronManager): the job listing of the    *)
(* four sources, the schedule display label, the statistics with their     *)
(* frequency buckets and next-run projection, and the job-creating         *)
(* mutations.                                                              *)
(*                                                                         *)
(* Strings are sequences of one-character strings, so that split, join,    *)
(* startswith, slicing and the substring test `in` are computed as Python  *)
(* computes them.  Instants are integers: ticks since 2024-01-01 00:00:00  *)
(* (a Monday), TicksPerSecond ticks to the second, so that the sub-second  *)
(* part that datetime.replace(minute=0, second=0) keeps is kept here too.  *)
(***************************************************************************)
EXTENDS Integers, Sequences, FiniteSets, TLC

VARIABLES
    is_root,        \* self.is_root
    user_cron,      \* self.user_cron: the in-memory user table (CronTab)
    system_cron,    \* self.system_cron: None or the in-memory /etc/crontab table
    crontab_user,   \* the persisted user crontab (what another process sees)
    etc_crontab,    \* the persisted /etc/crontab
    cron_d,         \* the directory /etc/cron.d: a sequence of entries
    periodic,       \* /etc/cron.{hourly,daily,weekly,monthly}: period -> entries
    croniter,       \* whether job.schedule() can be built (croniter importable)
    now,            \* the wall clock, in ticks
    pc,             \* position of the running handler
    listed,         \* result of the last list_all_jobs call, its cron_type, the calls so far
    all_jobs,       \* show_job_statistics: all_jobs
    stats,          \* show_job_statistics: stats
    next_runs,      \* show_job_statistics: next_runs
    idx,            \* show_job_statistics: loop position
    printed,        \* show_job_statistics: the printed next-run lines
    console,        \* the last mutation: its handler, its schedule, what it printed
    calls,          \* the number of handlers run so far in this session
    search,         \* search_jobs: the keyword, the matches of each source, the output
    menu,           \* show_main_menu: the selections so far and the handlers they started
    fmt             \* the schedules given to the formatter and what it returned

vars == <<menu, search, is_root, user_cron, system_cron, crontab_user, etc_crontab, cron_d,
          periodic, croniter, now, pc, listed, all_jobs, stats, next_runs, idx,
          printed, console, calls, fmt>>

-----------------------------------------------------------------------------
(* Python string operations on sequences of characters.                    *)

\* str.isspace for the characters that occur in crontab lines
IsSpace(c) == c \in {" ", "\t"}

RECURSIVE SplitFrom(_, _, _, _)
SplitFrom(s, i, cur, acc) ==
    IF i > Len(s)
    THEN (IF cur = <<>> THEN acc ELSE Append(acc, cur))
    ELSE IF IsSpace(s[i])
         THEN SplitFrom(s, i + 1, <<>>, IF cur = <<>> THEN acc ELSE Append(acc, cur))
         ELSE SplitFrom(s, i + 1, Append(cur, s[i]), acc)

\* s.split(): the maximal runs of non-whitespace characters
Split(s) == SplitFrom(s, 1, <<>>, <<>>)

RECURSIVE Join(_, _)
\* sep.join(parts)
Join(parts, sep) ==
    IF parts = <<>> THEN <<>>
    ELSE IF Len(parts) = 1 THEN parts[1]
    ELSE parts[1] \o sep \o Join(Tail(parts), sep)

\* s.startswith(prefix)
StartsWith(s, prefix) ==
    /\ Len(prefix) <= Len(s)
    /\ SubSeq(s, 1, Len(prefix)) = prefix

\* needle in hay (substring test)
Contains(needle, hay) ==
    \E i \in 0..(Len(hay) - Len(needle)) : SubSeq(hay, i + 1, i + Len(needle)) = needle

\* s[:n]
Prefix(s, n) == IF Len(s) <= n THEN s ELSE SubSeq(s, 1, n)

\* the number of fields of a numeric schedule (len(parts) != 5)
NFields == 5

SP == <<" ">>
STAR == <<"*">>
AT == "@"

-----------------------------------------------------------------------------
(* Schedule strings.                                                       *)

S_minute == <<"*", " ", "*", " ", "*", " ", "*", " ", "*">>
S_hourly == <<"0", " ", "*", " ", "*", " ", "*", " ", "*">>
S_daily == <<"0", " ", "0", " ", "*", " ", "*", " ", "*">>
S_weekly == <<"0", " ", "0", " ", "*", " ", "*", " ", "0">>
S_monthly == <<"0", " ", "0", " ", "1", " ", "*", " ", "*">>
S_every5 == <<"*", "/", "5", " ", "*", " ", "*", " ", "*", " ", "*">>

AtYearly == <<"@", "y", "e", "a", "r", "l", "y">>
AtAnnually == <<"@", "a", "n", "n", "u", "a", "l", "l", "y">>
AtMonthly == <<"@", "m", "o", "n", "t", "h", "l", "y">>
AtWeekly == <<"@", "w", "e", "e", "k", "l", "y">>
AtDaily == <<"@", "d", "a", "i", "l", "y">>
AtMidnight == <<"@", "m", "i", "d", "n", "i", "g", "h", "t">>
AtHourly == <<"@", "h", "o", "u", "r", "l", "y">>
AtReboot == <<"@", "r", "e", "b", "o", "o", "t">>

\* the display labels of _format_schedule
L_Jaehrlich == <<"J", "ä", "h", "r", "l", "i", "c", "h">>
L_Monatlich == <<"M", "o", "n", "a", "t", "l", "i", "c", "h">>
L_Woechentlich == <<"W", "ö", "c", "h", "e", "n", "t", "l", "i", "c", "h">>
L_Taeglich == <<"T", "ä", "g", "l", "i", "c", "h">>
L_UmMitternacht == <<"U", "m", " ", "M", "i", "t", "t", "e", "r", "n", "a", "c", "h", "t">>
L_Stuendlich == <<"S", "t", "ü", "n", "d", "l", "i", "c", "h">>
L_BeiNeustart == <<"B", "e", "i", " ", "N", "e", "u", "s", "t", "a", "r", "t">>
L_TaeglichUmMitternacht == L_Taeglich \o SP \o <<"u", "m", " ", "M", "i", "t", "t", "e", "r", "n", "a", "c", "h", "t">>
L_JedeMinute == <<"J", "e", "d", "e", " ", "M", "i", "n", "u", "t", "e">>
L_Alle5Minuten == <<"A", "l", "l", "e", " ", "5", " ", "M", "i", "n", "u", "t", "e", "n">>
L_WoechentlichSonntags == L_Woechentlich \o <<" ", "(", "S", "o", "n", "n", "t", "a", "g", "s", ")">>
L_MonatlichErsterTag == L_Monatlich \o <<" ", "(", "1", ".", " ", "T", "a", "g", ")">>

\* translations.get(schedule, schedule)
Translations(schedule) ==
    CASE schedule = AtYearly -> L_Jaehrlich
      [] schedule = AtAnnually -> L_Jaehrlich
      [] schedule = AtMonthly -> L_Monatlich
      [] schedule = AtWeekly -> L_Woechentlich
      [] schedule = AtDaily -> L_Taeglich
      [] schedule = AtMidnight -> L_UmMitternacht
      [] schedule = AtHourly -> L_Stuendlich
      [] schedule = AtReboot -> L_BeiNeustart
      [] OTHER -> schedule

\* the chain of special cases, with day and month exchanged in the general case
FormatPartsDayMonthSwapped(parts) ==
    LET known == {Split(S_daily), Split(S_hourly), Split(S_minute), Split(S_every5),
                  Split(S_weekly), Split(S_monthly)}
    IN  IF parts \in known
        THEN Translations(<<"@", "d", "a", "i", "l", "y">>)
        ELSE Join(<<parts[1], parts[2], parts[4], parts[3], parts[5]>>, SP)

\* the chain of special cases over the five fields
FormatParts(parts) ==
    LET minute == parts[1]
        hour == parts[2]
        day == parts[3]
        month == parts[4]
        weekday == parts[5]
    IN  IF minute = <<"0">> /\ hour = <<"0">> /\ day = STAR /\ month = STAR /\ weekday = STAR
            THEN L_TaeglichUmMitternacht
        ELSE IF minute = <<"0">> /\ hour = STAR /\ day = STAR /\ month = STAR /\ weekday = STAR
            THEN L_Stuendlich
        ELSE IF minute = STAR /\ hour = STAR /\ day = STAR /\ month = STAR /\ weekday = STAR
            THEN L_JedeMinute
        ELSE IF minute = <<"*", "/", "5">> /\ hour = STAR /\ day = STAR /\ month = STAR /\ weekday = STAR
            THEN L_Alle5Minuten
        ELSE IF minute = <<"0">> /\ hour = <<"0">> /\ day = STAR /\ month = STAR /\ weekday = <<"0">>
            THEN L_WoechentlichSonntags
        ELSE IF minute = <<"0">> /\ hour = <<"0">> /\ day = <<"1">> /\ month = STAR /\ weekday = STAR
            THEN L_MonatlichErsterTag
        ELSE Join(<<minute, hour, day, month, weekday>>, SP)

\* CronManager._format_schedule
_format_schedule(schedule) ==
    IF schedule # <<>> /\ schedule[1] = AT
    THEN Translations(schedule)
    ELSE LET parts == Split(schedule)
         IN  IF Len(parts) # NFields THEN schedule ELSE FormatParts(parts)

\* the frequency bucket chosen by the if/elif chain of show_job_statistics
FrequencyBucket(schedule) ==
    IF schedule = S_minute THEN "minute"
    ELSE IF Contains(S_hourly, schedule) \/ schedule = AtHourly THEN "hourly"
    ELSE IF schedule \in {S_daily, AtDaily, AtMidnight} THEN "daily"
    ELSE IF schedule = AtWeekly \/ Contains(S_weekly, schedule) THEN "weekly"
    ELSE IF schedule = AtMonthly \/ Contains(S_monthly, schedule) THEN "monthly"
    ELSE "other"

-----------------------------------------------------------------------------
(* The schedule expression model: Parse of a schedule string, as the       *)
(* specification states it (section 4.1); in the program it is the         *)
(* validation done by CronItem.setall of the python-crontab package.       *)

RECURSIVE SplitOnFrom(_, _, _, _, _)
SplitOnFrom(s, ch, i, cur, acc) ==
    IF i > Len(s) THEN Append(acc, cur)
    ELSE IF s[i] = ch THEN SplitOnFrom(s, ch, i + 1, <<>>, Append(acc, cur))
    ELSE SplitOnFrom(s, ch, i + 1, Append(cur, s[i]), acc)

\* s.split(ch): the parts between the occurrences of ch, empty parts kept
SplitOn(s, ch) == SplitOnFrom(s, ch, 1, <<>>, <<>>)

Digits == <<"0", "1", "2", "3", "4", "5", "6", "7", "8", "9">>

IsDigit(c) == \E d \in 1..Len(Digits) : Digits[d] = c

DigitVal(c) == (CHOOSE d \in 1..Len(Digits) : Digits[d] = c) - 1

IsInt(tok) == tok # <<>> /\ \A i \in 1..Len(tok) : IsDigit(tok[i])

RECURSIVE IntVal(_)
IntVal(tok) ==
    IF tok = <<>> THEN 0
    ELSE IntVal(SubSeq(tok, 1, Len(tok) - 1)) * 10 + DigitVal(tok[Len(tok)])

\* the per-field bound table: minute, hour, dayOfMonth, month, dayOfWeek
FieldMin == <<0, 0, 1, 1, 0>>
FieldMax == <<59, 23, 31, 12, 7>>

IntIn(tok, k) == IsInt(tok) /\ IntVal(tok) >= FieldMin[k] /\ IntVal(tok) <= FieldMax[k]

RangeOK(tok, k) ==
    LET r == SplitOn(tok, "-")
    IN  Len(r) = 2 /\ IntIn(r[1], k) /\ IntIn(r[2], k)

ElemOK(e, k) ==
    LET ps == SplitOn(e, "/")
    IN  \/ Len(ps) = 1 /\ (ps[1] = STAR \/ IntIn(ps[1], k) \/ RangeOK(ps[1], k))
        \/ Len(ps) = 2 /\ (ps[1] = STAR \/ RangeOK(ps[1], k)) /\ IsInt(ps[2]) /\ IntVal(ps[2]) >= 1

FieldOK(f, k) ==
    LET es == SplitOn(f, ",")
    IN  \A i \in 1..Len(es) : ElemOK(es[i], k)

Symbolic == {AtReboot, AtHourly, AtDaily, AtWeekly, AtMonthly, AtYearly, AtAnnually, AtMidnight}

\* Parse succeeds on the string
IsValidSchedule(s) ==
    IF s # <<>> /\ s[1] = AT
    THEN s \in Symbolic
    ELSE LET parts == Split(s)
         IN  Len(parts) = NFields /\ \A k \in 1..NFields : FieldOK(parts[k], k)

\* an integer of the dayOfWeek field: 7 is stored as 0
NormInt(tok, k) == IF k = NFields /\ IntVal(tok) = 7 THEN 0 ELSE IntVal(tok)

ParseBase(b, k) ==
    IF b = STAR THEN [star |-> TRUE, lo |-> FieldMin[k], hi |-> FieldMax[k]]
    ELSE LET r == SplitOn(b, "-")
         IN  IF Len(r) = 2
             THEN [star |-> FALSE, lo |-> IntVal(r[1]), hi |-> IntVal(r[2])]
             ELSE [star |-> FALSE, lo |-> NormInt(b, k), hi |-> NormInt(b, k)]

ParseElem(e, k) ==
    LET ps == SplitOn(e, "/")
    IN  [base |-> ParseBase(ps[1], k), step |-> IF Len(ps) = 2 THEN IntVal(ps[2]) ELSE 1]

ParseField(f, k) ==
    LET es == SplitOn(f, ",")
    IN  [i \in 1..Len(es) |-> ParseElem(es[i], k)]

\* Parse(s) of a valid schedule string: the structure that is compared
ParseSchedule(s) ==
    IF s # <<>> /\ s[1] = AT
    THEN [kind |-> "symbolic", name |-> s, fields |-> <<>>]
    ELSE LET parts == Split(s)
         IN  [kind |-> "numeric", name |-> <<>>,
              fields |-> [k \in 1..NFields |-> ParseField(parts[k], k)]]

-----------------------------------------------------------------------------
(* Job records and the four source readers.                                *)

Str_user == <<"u", "s", "e", "r">>
Str_system == <<"s", "y", "s", "t", "e", "m">>
Str_root == <<"r", "o", "o", "t">>
Str_periodic == <<"p", "e", "r", "i", "o", "d", "i", "c", "-">>
Str_crond == <<"c", "r", "o", "n", ".", "d", "/">>
Str_etc_cron == <<"/", "e", "t", "c", "/", "c", "r", "o", "n", ".">>
Str_job == <<" ", "j", "o", "b">>
Str_Aus == <<"A", "u", "s", " ">>
Str_colon == <<":", " ">>
Str_ellipsis == <<".", ".", ".">>
Str_shebang == <<"#", "!">>
Str_hourly == <<"h", "o", "u", "r", "l", "y">>
Str_daily == <<"d", "a", "i", "l", "y">>
Str_weekly == <<"w", "e", "e", "k", "l", "y">>
Str_monthly == <<"m", "o", "n", "t", "h", "l", "y">>
Str_README == <<"R", "E", "A", "D", "M", "E">>
Str_placeholder == <<".", "p", "l", "a", "c", "e", "h", "o", "l", "d", "e", "r">>
Str_dot == <<".">>
Str_dotdot == <<".", ".">>

\* os.getlogin()
Login == <<"m", "e">>

Lowers == <<"a", "b", "c", "d", "e", "f", "g", "h", "i", "j", "k", "l", "m",
            "n", "o", "p", "q", "r", "s", "t", "u", "v", "w", "x", "y", "z">>
Uppers == <<"A", "B", "C", "D", "E", "F", "G", "H", "I", "J", "K", "L", "M",
            "N", "O", "P", "Q", "R", "S", "T", "U", "V", "W", "X", "Y", "Z">>

UpperChar(c) == IF \E i \in 1..Len(Lowers) : Lowers[i] = c
                THEN Uppers[CHOOSE i \in 1..Len(Lowers) : Lowers[i] = c] ELSE c
LowerChar(c) == IF \E i \in 1..Len(Uppers) : Uppers[i] = c
                THEN Lowers[CHOOSE i \in 1..Len(Uppers) : Uppers[i] = c] ELSE c

\* s.lower()
Lower(s) == [i \in 1..Len(s) |-> LowerChar(s[i])]

\* s.capitalize()
Capitalize(s) == [i \in 1..Len(s) |-> IF i = 1 THEN UpperChar(s[i]) ELSE LowerChar(s[i])]

\* the names list_all_jobs is called with
T_User == "Benutzer-Crontab"
T_System == "System-Crontab (/etc/crontab)"
T_CronD == "Cron.d Verzeichnis (/etc/cron.d)"
T_Periodic == "Periodische Jobs (hourly/daily/weekly/monthly)"

\* 'job': None, and a handle into a loaded table
None == [tab |-> "None", pos |-> 0]
Handle(tab, i) == [tab |-> tab, pos |-> i]

\* the order of: for period in ['hourly', 'daily', 'weekly', 'monthly']
Periods == <<Str_hourly, Str_daily, Str_weekly, Str_monthly>>

RECURSIVE Flatten(_)
\* the concatenation of a sequence of sequences (jobs.extend in a loop)
Flatten(ss) == IF ss = <<>> THEN <<>> ELSE Head(ss) \o Flatten(Tail(ss))

\* the scan of a periodic directory without the inner try/except: the first
\* script that cannot be opened ends the scan of its directory
PeriodicDirJobsUnguarded(period, dir) ==
    IF ~dir.exists THEN <<>>
    ELSE LET opened(e) == ~StartsWith(e.name, Str_dot) /\ e.isfile /\ e.exec
             raises == {i \in 1..Len(dir.entries) :
                            opened(dir.entries[i]) /\ ~dir.entries[i].readable}
             last == IF raises = {} THEN Len(dir.entries)
                     ELSE (CHOOSE i \in raises : \A j \in raises : i <= j) - 1
             keep(e) == opened(e) /\ e.header = Str_shebang
             sel == SelectSeq(SubSeq(dir.entries, 1, last), keep)
         IN  [i \in 1..Len(sel) |->
                [command |-> Str_etc_cron \o period \o <<"/">> \o sel[i].name,
                 schedule |-> <<AT>> \o period,
                 enabled |-> TRUE,
                 comment |-> Capitalize(period) \o Str_job,
                 user |-> Str_root,
                 source |-> Str_periodic \o period,
                 job |-> None]]

\* the records of one periodic directory; dir = [exists, entries], an entry
\* is [name, isfile, exec, readable, header]
PeriodicDirJobs(period, dir) ==
    IF ~dir.exists THEN <<>>
    ELSE LET keep(e) == /\ ~StartsWith(e.name, Str_dot)
                        /\ e.isfile /\ e.exec
                        /\ e.readable
                        /\ e.header = Str_shebang
             sel == SelectSeq(dir.entries, keep)
         IN  [i \in 1..Len(sel) |->
                [command |-> Str_etc_cron \o period \o <<"/">> \o sel[i].name,
                 schedule |-> <<AT>> \o period,
                 enabled |-> TRUE,
                 comment |-> Capitalize(period) \o Str_job,
                 user |-> Str_root,
                 source |-> Str_periodic \o period,
                 job |-> None]]

\* CronManager._list_periodic_jobs; dirs is a function period index -> directory
_list_periodic_jobs(dirs) ==
    Flatten([p \in 1..Len(Periods) |-> PeriodicDirJobs(Periods[p], dirs[p])])

RECURSIVE SplitMaxFrom(_, _, _, _, _)
SplitMaxFrom(s, maxsplit, i, cur, acc) ==
    IF i > Len(s)
    THEN (IF cur = <<>> THEN acc ELSE Append(acc, cur))
    ELSE IF cur = <<>> /\ IsSpace(s[i]) THEN SplitMaxFrom(s, maxsplit, i + 1, cur, acc)
    ELSE IF cur = <<>> /\ Len(acc) = maxsplit THEN Append(acc, SubSeq(s, i, Len(s)))
    ELSE IF IsSpace(s[i]) THEN SplitMaxFrom(s, maxsplit, i + 1, <<>>, Append(acc, cur))
    ELSE SplitMaxFrom(s, maxsplit, i + 1, Append(cur, s[i]), acc)

\* s.split(None, maxsplit)
SplitMax(s, maxsplit) == SplitMaxFrom(s, maxsplit, 1, <<>>, <<>>)

RECURSIVE LStrip(_)
LStrip(s) == IF s # <<>> /\ IsSpace(s[1]) THEN LStrip(Tail(s)) ELSE s
RECURSIVE RStrip(_)
RStrip(s) == IF s # <<>> /\ IsSpace(s[Len(s)]) THEN RStrip(SubSeq(s, 1, Len(s) - 1)) ELSE s

\* s.strip()
Strip(s) == RStrip(LStrip(s))

\* the record of one line, with a comment that does not name the file
ManualParseLineUnnamed(rawline, filename) ==
    LET line == Strip(rawline)
        parts == SplitMax(line, 6)
    IN  IF line = <<>> \/ line[1] = "#" \/ Len(parts) < 7 THEN <<>>
        ELSE << [command |-> parts[7], schedule |-> Join(SubSeq(parts, 1, 5), SP),
                 enabled |-> TRUE, comment |-> Str_Aus, user |-> parts[6],
                 source |-> Str_crond \o filename, job |-> None] >>

\* the record of one line when the line is split at every whitespace run
ManualParseLineSplitAll(rawline, filename) ==
    LET line == Strip(rawline)
    IN  IF line = <<>> \/ line[1] = "#" THEN <<>>
        ELSE LET parts == Split(line)
             IN  IF Len(parts) >= 7
                 THEN << [command |-> parts[7],
                          schedule |-> Join(SubSeq(parts, 1, 5), SP),
                          enabled |-> TRUE,
                          comment |-> Str_Aus \o filename,
                          user |-> parts[6],
                          source |-> Str_crond \o filename,
                          job |-> None] >>
                 ELSE <<>>

\* the record of one line of the line-oriented parser, or nothing
ManualParseLine(rawline, filename) ==
    LET line == Strip(rawline)
    IN  IF line = <<>> \/ line[1] = "#" THEN <<>>
        ELSE LET parts == SplitMax(line, 6)
             IN  IF Len(parts) >= 7
                 THEN << [command |-> parts[7],
                          schedule |-> Join(SubSeq(parts, 1, 5), SP),
                          enabled |-> TRUE,
                          comment |-> Str_Aus \o filename,
                          user |-> parts[6],
                          source |-> Str_crond \o filename,
                          job |-> None] >>
                 ELSE <<>>

\* CronManager._manual_parse_cron_d_file; file = [name, isfile, readable,
\* parses, items, lines]
_manual_parse_cron_d_file(file, filename) ==
    IF ~file.readable THEN <<>>
    ELSE Flatten([i \in 1..Len(file.lines) |-> ManualParseLine(file.lines[i], filename)])

\* the records of one entry of /etc/cron.d
CronDFileJobs(file) ==
    IF file.name \in {Str_dot, Str_dotdot, Str_placeholder, Str_README} THEN <<>>
    ELSE IF ~file.isfile THEN <<>>
    ELSE IF file.parses
         THEN [i \in 1..Len(file.items) |->
                [command |-> file.items[i].command,
                 schedule |-> file.items[i].slices,
                 enabled |-> file.items[i].enabled,
                 comment |-> file.name \o Str_colon \o file.items[i].comment,
                 user |-> file.items[i].user,
                 source |-> Str_crond \o file.name,
                 job |-> Handle("cron.d", i)]]
         ELSE _manual_parse_cron_d_file(file, file.name)

RECURSIVE ScanUntilFailure(_)
\* the records of the entries before the first file whose parse fails
ScanUntilFailure(entries) ==
    IF entries = <<>> THEN <<>>
    ELSE IF Head(entries).isfile /\ ~Head(entries).parses THEN <<>>
    ELSE CronDFileJobs(Head(entries)) \o ScanUntilFailure(Tail(entries))

\* the scan given up at the first file whose parse fails
_list_cron_d_jobs_aborting(dir) ==
    IF ~dir.exists THEN <<>> ELSE ScanUntilFailure(dir.entries)

\* CronManager._list_cron_d_jobs; dir = [exists, entries]
_list_cron_d_jobs(dir) ==
    IF ~dir.exists THEN <<>>
    ELSE Flatten([i \in 1..Len(dir.entries) |-> CronDFileJobs(dir.entries[i])])

\* the records of the user table
UserJobs(tab) ==
    [i \in 1..Len(tab) |->
        [command |-> tab[i].command,
         schedule |-> tab[i].slices,
         enabled |-> tab[i].enabled,
         comment |-> tab[i].comment,
         user |-> Login,
         source |-> Str_user,
         job |-> Handle("user", i)]]

\* the records of the loaded system table
SystemJobs(tab) ==
    [i \in 1..Len(tab) |->
        [command |-> tab[i].command,
         schedule |-> tab[i].slices,
         enabled |-> tab[i].enabled,
         comment |-> tab[i].comment,
         user |-> tab[i].user,
         source |-> Str_system,
         job |-> Handle("system", i)]]

\* self.system_cron = None
NoTable == [loaded |-> FALSE, items |-> <<>>]

\* list_all_jobs without the tests of self.is_root
list_all_jobs_unguarded(cron_type) ==
    IF cron_type \in {"user", T_User} THEN UserJobs(user_cron)
    ELSE IF cron_type = T_System
         THEN (IF system_cron.loaded THEN SystemJobs(system_cron.items) ELSE <<>>)
    ELSE IF cron_type = T_Periodic THEN _list_periodic_jobs(periodic)
    ELSE IF cron_type = T_CronD THEN _list_cron_d_jobs(cron_d)
    ELSE <<>>

\* CronManager.list_all_jobs
list_all_jobs(cron_type) ==
    IF cron_type \in {"user", T_User} THEN UserJobs(user_cron)
    ELSE IF cron_type = T_System
         THEN (IF ~is_root THEN <<>>
               ELSE IF system_cron.loaded THEN SystemJobs(system_cron.items) ELSE <<>>)
    ELSE IF cron_type = T_Periodic
         THEN (IF ~is_root THEN <<>> ELSE _list_periodic_jobs(periodic))
    ELSE IF cron_type = T_CronD
         THEN (IF ~is_root THEN <<>> ELSE _list_cron_d_jobs(cron_d))
    ELSE <<>>

\* CronManager.get_cron_type: the choices offered before "Zurück"
CronTypeChoices ==
    <<T_User>>
    \o (IF is_root /\ etc_crontab.exists THEN <<T_System>> ELSE <<>>)
    \o (IF is_root /\ cron_d.exists THEN <<T_CronD>> ELSE <<>>)
    \o (IF is_root /\ \E p \in 1..Len(Periods) : periodic[p].exists
        THEN <<T_Periodic>> ELSE <<>>)

\* CronManager._load_system_crontabs with _manual_parse_system_crontab: the
\* value of self.system_cron after it; etc = [exists, blank, parses, items, lines]
_load_system_crontabs(etc) ==
    IF ~etc.exists THEN NoTable
    ELSE IF etc.blank THEN NoTable
    ELSE IF etc.parses THEN [loaded |-> TRUE, items |-> etc.items]
    ELSE NoTable

-----------------------------------------------------------------------------
(* Instants and the datetime arithmetic of the next-run projection.        *)

\* resolution of the clock: ticks per second
TicksPerSecond == 2

TSecond == TicksPerSecond
TMinute == 60 * TSecond
THour == 60 * TMinute
TDay == 24 * THour

IsLeap(y) == (y % 4 = 0 /\ y % 100 # 0) \/ y % 400 = 0
DaysInYear(y) == IF IsLeap(y) THEN 366 ELSE 365
DaysInMonth(y, m) ==
    IF m = 2 THEN (IF IsLeap(y) THEN 29 ELSE 28)
    ELSE IF m \in {4, 6, 9, 11} THEN 30 ELSE 31

RECURSIVE DaysBeforeYear(_)
\* days from the epoch 2024-01-01 to the first day of year y
DaysBeforeYear(y) == IF y <= 2024 THEN 0 ELSE DaysBeforeYear(y - 1) + DaysInYear(y - 1)

RECURSIVE DaysBeforeMonth(_, _)
DaysBeforeMonth(y, m) == IF m <= 1 THEN 0 ELSE DaysBeforeMonth(y, m - 1) + DaysInMonth(y, m - 1)

\* the day number of a date
DayNumber(y, m, d) == DaysBeforeYear(y) + DaysBeforeMonth(y, m) + d - 1

\* the instant of a date and time; sub is the sub-second part, in ticks
Instant(y, m, d, h, mi, s, sub) ==
    DayNumber(y, m, d) * TDay + h * THour + mi * TMinute + s * TSecond + sub

YearOf(t) == CHOOSE y \in 2024..2040 :
                /\ DaysBeforeYear(y) <= t \div TDay
                /\ t \div TDay < DaysBeforeYear(y + 1)
MonthOf(t) == CHOOSE m \in 1..12 :
                /\ DayNumber(YearOf(t), m, 1) <= t \div TDay
                /\ t \div TDay < DayNumber(YearOf(t), m, 1) + DaysInMonth(YearOf(t), m)

\* datetime.weekday(): Monday is 0, Sunday is 6
Weekday(t) == (t \div TDay) % 7

\* t.replace(minute=0, second=0): the microsecond is kept
ReplaceMinSec(t) == t - (t % THour) + (t % TSecond)

\* t.replace(hour=0, minute=0, second=0)
ReplaceHourMinSec(t) == t - (t % TDay) + (t % TSecond)

\* t.replace(day=1, hour=0, minute=0, second=0)
ReplaceDayHourMinSec(t) == DayNumber(YearOf(t), MonthOf(t), 1) * TDay + (t % TSecond)

\* @hourly: datetime.now().replace(minute=0, second=0) + timedelta(hours=1)
NextHour(t) == ReplaceMinSec(t) + THour

\* @daily: datetime.now().replace(hour=0, minute=0, second=0) + timedelta(days=1)
NextDay(t) == ReplaceHourMinSec(t) + TDay

\* @weekly: days_until_sunday, from the first reading of the clock
DaysUntilSunday(t) ==
    LET d == (6 - Weekday(t)) % 7
    IN  IF d = 0 THEN 7 ELSE d

\* @weekly: the instant, from the days and the second reading of the clock
NextWeek(days, t) == ReplaceHourMinSec(t) + days * TDay

\* @monthly with the month wrapping from 12 to 1 in the same year
NextMonthSameYear(t) ==
    LET first == ReplaceDayHourMinSec(t)
    IN  IF MonthOf(first) = 12
        THEN DayNumber(YearOf(first), 1, 1) * TDay + (first % TDay)
        ELSE DayNumber(YearOf(first), MonthOf(first) + 1, 1) * TDay + (first % TDay)

\* @monthly: first of this month, then month + 1 or January of year + 1
NextMonth(t) ==
    LET first == ReplaceDayHourMinSec(t)
    IN  IF MonthOf(first) = 12
        THEN DayNumber(YearOf(first) + 1, 1, 1) * TDay + (first % TDay)
        ELSE DayNumber(YearOf(first), MonthOf(first) + 1, 1) * TDay + (first % TDay)

-----------------------------------------------------------------------------
(* show_job_statistics: the counters.                                      *)

\* the sources with the periodic directories first
SourcesPeriodicFirst(root) ==
    IF root THEN <<T_Periodic, T_User, T_System, T_CronD>> ELSE <<T_User>>

\* sources: the user table, and as root the three system sources
Sources(root) == IF root THEN <<T_User, T_System, T_CronD, T_Periodic>> ELSE <<T_User>>

\* the buckets without the else branch of the if/elif chain
ByFrequencyNoOther(jobs) ==
    [b \in {"minute", "hourly", "daily", "weekly", "monthly", "other"} |->
        IF b = "other" THEN 0
        ELSE Cardinality({i \in 1..Len(jobs) : FrequencyBucket(jobs[i].schedule) = b})]

\* stats['by_frequency'] after the loop over jobs
ByFrequency(jobs) ==
    [b \in {"minute", "hourly", "daily", "weekly", "monthly", "other"} |->
        Cardinality({i \in 1..Len(jobs) : FrequencyBucket(jobs[i].schedule) = b})]

\* the position of a source in the loop over sources
SourceIndex(sources, s) == CHOOSE k \in 1..Len(sources) : sources[k] = s

\* a key only for a source that lists a job
BySourceNonEmpty(sources, lists) ==
    [s \in {sources[k] : k \in {j \in 1..Len(sources) : lists[j] # <<>>}} |->
        Len(lists[SourceIndex(sources, s)])]

\* stats['by_source']: one key per source of the loop, set to len(jobs)
BySource(sources, lists) ==
    [s \in {sources[k] : k \in 1..Len(sources)} |-> Len(lists[SourceIndex(sources, s)])]

\* stats['by_user']: a key for every user met
ByUser(jobs) ==
    [u \in {jobs[i].user : i \in 1..Len(jobs)} |->
        Cardinality({i \in 1..Len(jobs) : jobs[i].user = u})]

\* the counters with one count per distinct command
CollectStatsDistinct(sources, lists) ==
    LET jobs == Flatten(lists)
    IN  [total |-> Cardinality({jobs[i].command : i \in 1..Len(jobs)}),
         active |-> Cardinality({jobs[i].command : i \in {j \in 1..Len(jobs) : jobs[j].enabled}}),
         inactive |-> Cardinality({jobs[i].command : i \in {j \in 1..Len(jobs) : ~jobs[j].enabled}}),
         by_source |-> BySource(sources, lists),
         by_user |-> ByUser(jobs),
         by_frequency |-> ByFrequency(jobs)]

\* the stats dictionary after the loop "for source in sources"; lists[k] is
\* the result of list_all_jobs(sources[k])
CollectStats(sources, lists) ==
    LET jobs == Flatten(lists)
    IN  [total |-> Len(jobs),
         active |-> Cardinality({i \in 1..Len(jobs) : jobs[i].enabled}),
         inactive |-> Cardinality({i \in 1..Len(jobs) : ~jobs[i].enabled}),
         by_source |-> BySource(sources, lists),
         by_user |-> ByUser(jobs),
         by_frequency |-> ByFrequency(jobs)]

\* the stats dictionary before the loop; also its value before any run
InitialStats ==
    [total |-> 0, active |-> 0, inactive |-> 0, by_source |-> <<>>, by_user |-> <<>>,
     by_frequency |-> [b \in {"minute", "hourly", "daily", "weekly", "monthly", "other"} |-> 0]]

-----------------------------------------------------------------------------
(* show_job_statistics: the next-run projection.                           *)

\* the longest pause between two readings of the clock, and the longest
\* time a run of a handler takes, in ticks
MaxElapse == 1
MaxDrift == 2

\* the largest distance of the instant croniter returns, in ticks
MaxLibDelay == 2

\* only the first ten next runs are shown: next_runs[:10]
TopN == 10

\* cmd_display of the branch with a handle: cut to 47 characters and "..."
CmdDisplay(command) ==
    IF Len(command) > 50 THEN SubSeq(command, 1, 47) \o Str_ellipsis ELSE command

\* if job['job'] and job['enabled']
Eligible(job) == job.job # None /\ job.enabled

\* the key of next_runs.sort
SortKey(entry) == entry.t

RECURSIVE InsertSortedBeforeEqual(_, _)
\* e before the first entry of the sorted sequence that is not less than it
InsertSortedBeforeEqual(sorted, e) ==
    IF sorted = <<>> THEN <<e>>
    ELSE IF SortKey(Head(sorted)) < SortKey(e)
         THEN <<Head(sorted)>> \o InsertSortedBeforeEqual(Tail(sorted), e)
         ELSE <<e>> \o sorted

RECURSIVE InsertSorted(_, _)
\* e after every entry of the sorted sequence that is not greater than it
InsertSorted(sorted, e) ==
    IF sorted = <<>> THEN <<e>>
    ELSE IF SortKey(Head(sorted)) <= SortKey(e)
         THEN <<Head(sorted)>> \o InsertSorted(Tail(sorted), e)
         ELSE <<e>> \o sorted

\* the sort left out: next_runs stays in the order of all_jobs
SortRunsOmitted(runs) == runs

RECURSIVE SortRuns(_)
\* next_runs.sort(key=lambda x: x[0]): ascending and stable
SortRuns(runs) ==
    IF runs = <<>> THEN <<>>
    ELSE InsertSorted(SortRuns(SubSeq(runs, 1, Len(runs) - 1)), runs[Len(runs)])

\* the test left out: every one of the first ten entries is shown
ShownAlways(next_run, t) == TRUE

\* if time_diff.total_seconds() > 0
Shown(next_run, t) == next_run - t > 0

-----------------------------------------------------------------------------
(* The stores the model is run on.                                         *)

\* the most entries of the user table at the start
MaxUserJobs == 2

S_every10 == <<"*", "/", "1", "0", " ", "*", " ", "*", " ", "*", " ", "*">>
S_sun0030 == <<"3", "0", " ", "0", " ", "*", " ", "*", " ", "0">>
S_sunday7 == <<"0", " ", "0", " ", "*", " ", "*", " ", "7">>
Line_sunday7 == <<"0", " ", "0", " ", "*", " ", "*", " ", "7", " ", "r", "o", "o", "t", " ", "x">>
Line_sunday0 == <<"0", " ", "0", " ", "*", " ", "*", " ", "0", " ", "r", "o", "o", "t", " ", " ", "y", " ", "z">>
Line_comment == <<"#", " ", "n", "o", "t", "e">>

\* an entry of a crontab (CronItem)
Item(command, slices, enabled) ==
    [command |-> command, comment |-> <<>>, slices |-> slices, enabled |-> enabled,
     user |-> Str_root]

SeqsUpTo(S, n) == UNION {[1..k -> S] : k \in 0..n}

UserItems ==
    {Item(<<"a">>, S_every10, TRUE), Item(<<"b">>, AtWeekly, TRUE),
     Item(<<"c">>, AtHourly, FALSE), Item(<<"d">>, AtReboot, TRUE)}

RootUserItems == {Item(<<"e">>, AtMonthly, TRUE)}

EtcMissing == [exists |-> FALSE, blank |-> TRUE, parses |-> FALSE, items |-> <<>>, lines |-> <<>>]
EtcOne == [exists |-> TRUE, blank |-> FALSE, parses |-> TRUE,
           items |-> <<Item(<<"s">>, S_monthly, FALSE)>>, lines |-> <<>>]
\* an /etc/crontab the structured parse fails on
EtcBroken == [exists |-> TRUE, blank |-> FALSE, parses |-> FALSE, items |-> <<>>,
              lines |-> <<Line_comment, Line_sunday0, <<>>, Line_sunday7>>]
EtcFiles == {EtcMissing, EtcOne, EtcBroken}

File(name, isfile, parses, items, lines) ==
    [name |-> name, isfile |-> isfile, readable |-> TRUE, parses |-> parses,
     items |-> items, lines |-> lines]

NoDir == [exists |-> FALSE, entries |-> <<>>]
DirStructured ==
    [exists |-> TRUE,
     entries |-> <<File(<<"f">>, TRUE, TRUE, <<Item(<<"w">>, S_sun0030, TRUE)>>, <<>>)>>]
DirFallback ==
    [exists |-> TRUE,
     entries |-> <<File(<<"g">>, TRUE, FALSE, <<>>, <<Line_comment, Line_sunday7, Line_sunday0>>)>>]
CronDDirs == {NoDir, DirStructured, DirFallback}

Script(name, exec, header) ==
    [name |-> name, isfile |-> TRUE, exec |-> exec, readable |-> TRUE, header |-> header]

PerNone == [p \in 1..Len(Periods) |-> NoDir]
PerHourly ==
    [p \in 1..Len(Periods) |->
        IF p = 1 THEN [exists |-> TRUE, entries |-> <<Script(<<"h">>, TRUE, Str_shebang)>>]
        ELSE NoDir]
PerMixed ==
    [p \in 1..Len(Periods) |->
        IF p = 2 THEN [exists |-> TRUE,
                       entries |-> <<Script(<<"n">>, TRUE, <<"E", "L">>),
                                     Script(<<"t">>, TRUE, Str_shebang)>>]
        ELSE IF p = 3 THEN [exists |-> TRUE, entries |-> <<Script(<<"k">>, TRUE, Str_shebang)>>]
        ELSE NoDir]
PeriodicDirs == {PerNone, PerHourly, PerMixed}

\* /etc/cron.daily with a hidden script, a script without the execute bit, a
\* subdirectory, a script that cannot be opened, a binary and a script;
\* /etc/cron.hourly and /etc/cron.monthly with one script each
PerOdd ==
    [p \in 1..Len(Periods) |->
        IF p = 2 THEN [exists |-> TRUE,
                       entries |-> <<Script(<<".", "d">>, TRUE, Str_shebang),
                                     Script(<<"n">>, FALSE, Str_shebang),
                                     [Script(<<"s">>, TRUE, Str_shebang) EXCEPT !.isfile = FALSE],
                                     [Script(<<"u">>, TRUE, Str_shebang) EXCEPT !.readable = FALSE],
                                     Script(<<"b">>, TRUE, <<"E", "L">>),
                                     Script(<<"z">>, TRUE, Str_shebang)>>]
        ELSE IF p = 3 THEN NoDir
        ELSE [exists |-> TRUE, entries |-> <<Script(<<"q">>, TRUE, Str_shebang)>>]]

\* a Sunday at midnight; the last second of a year; the last second of an
\* hour; the last half second of a Saturday
StartClocks ==
    {Instant(2024, 12, 1, 0, 0, 0, 0), Instant(2024, 12, 31, 23, 59, 59, 1),
     Instant(2024, 1, 17, 10, 59, 59, 0), Instant(2024, 11, 30, 23, 59, 59, 1)}

\* a user table with the command of the /etc/crontab entry of EtcOne
SameAsEtc == <<Item(<<"s">>, AtHourly, TRUE)>>

\* a user table with an @midnight and an @daily job
MidnightAndDaily == <<Item(<<"m">>, AtMidnight, TRUE), Item(<<"y">>, AtDaily, TRUE)>>

\* a user table with more enabled jobs than next runs are shown
ManyJobs ==
    [i \in 1..(TopN + 2) |->
        Item(<<"j">>, IF i % 3 = 1 THEN AtDaily ELSE IF i % 3 = 2 THEN AtHourly ELSE AtWeekly,
             TRUE)]

\* the stores a statistics run starts from
StatsWorlds ==
    {[root |-> FALSE, user |-> u, etc |-> EtcOne, crond |-> DirFallback, per |-> PerHourly] :
        u \in SeqsUpTo(UserItems, MaxUserJobs)}
    \cup
    {[root |-> TRUE, user |-> u, etc |-> e, crond |-> c, per |-> p] :
        u \in SeqsUpTo(RootUserItems, 1), e \in EtcFiles, c \in CronDDirs, p \in PeriodicDirs}
    \cup
    {[root |-> FALSE, user |-> MidnightAndDaily, etc |-> EtcMissing, crond |-> NoDir,
      per |-> PerNone],
     [root |-> TRUE, user |-> SameAsEtc, etc |-> EtcOne, crond |-> DirFallback,
      per |-> PerMixed],
     [root |-> FALSE, user |-> ManyJobs, etc |-> EtcMissing, crond |-> NoDir,
      per |-> PerNone],
     [root |-> TRUE, user |-> <<Item(<<"d">>, AtReboot, TRUE)>>, etc |-> EtcOne,
      crond |-> DirStructured, per |-> PerHourly]}

\* list_all_jobs was not called yet
NotListed == [cron_type |-> "", jobs |-> <<>>, n |-> 0]

\* nothing was printed by a mutation yet; imported is the count import_jobs
\* reports
NoConsole == [op |-> "", schedule |-> <<>>, out |-> "", wrote |-> FALSE, imported |-> 0, persisted |-> <<>>]

\* nothing was given to the formatter yet
NoFmt == [in |-> <<>>, label |-> <<>>, bucket |-> <<>>]

\* search_jobs was not run yet
NotSearched == [answer |-> [given |-> FALSE, text |-> <<>>], matches |-> <<>>, out |-> ""]

\* the state after CronManager.__init__ on the stores w
Constructed(w) ==
    /\ is_root = w.root
    /\ user_cron = w.user
    /\ crontab_user = w.user
    /\ etc_crontab = w.etc
    /\ system_cron = (IF w.root THEN _load_system_crontabs(w.etc) ELSE NoTable)
    /\ cron_d = w.crond
    /\ periodic = w.per
    /\ pc = "idle"
    /\ listed = NotListed
    /\ all_jobs = <<>>
    /\ stats = InitialStats
    /\ next_runs = <<>>
    /\ idx = 0
    /\ printed = <<>>
    /\ console = NoConsole
    /\ calls = 0
    /\ search = NotSearched
    /\ menu = <<>>

-----------------------------------------------------------------------------
(* show_job_statistics, in the steps of its loops.                         *)

\* the pauses the clock can make before a reading at t
Elapses(t) ==
    {e \in 0..MaxElapse : \E s \in StartClocks : (t + e) - s \in 0..MaxDrift}

\* an entry of next_runs: (next_run, command, user); src is the position of
\* its job in all_jobs and at the clock reading it was computed from (in
\* printed: the reading it was shown at), both kept for the properties only
Run(t, job, k, at) ==
    [kind |-> "run", t |-> t, cmd |-> Prefix(job.command, 50), user |-> job.user,
     src |-> k, at |-> at]

\* the except branch: schedules that start with '@', on clock readings t1, t2
ExceptBranch(job, k, t1, t2) ==
    IF job.schedule = <<>> \/ job.schedule[1] # AT
    THEN UNCHANGED <<next_runs, printed>>
    ELSE IF job.schedule = AtReboot
    THEN /\ printed' = Append(printed, [kind |-> "reboot", t |-> 0,
                                        cmd |-> Prefix(job.command, 50), user |-> job.user,
                                        src |-> k, at |-> t1])
         /\ UNCHANGED next_runs
    ELSE IF job.schedule = AtHourly
    THEN next_runs' = Append(next_runs, Run(NextHour(t1), job, k, t1)) /\ UNCHANGED printed
    ELSE IF job.schedule = AtDaily
    THEN next_runs' = Append(next_runs, Run(NextDay(t1), job, k, t1)) /\ UNCHANGED printed
    ELSE IF job.schedule = AtWeekly
    THEN next_runs' = Append(next_runs, Run(NextWeek(DaysUntilSunday(t1), t2), job, k, t2))
         /\ UNCHANGED printed
    ELSE IF job.schedule = AtMonthly
    THEN next_runs' = Append(next_runs, Run(NextMonth(t1), job, k, t1)) /\ UNCHANGED printed
    ELSE UNCHANGED <<next_runs, printed>>

\* the lists of the sources, the counters, and all_jobs
StatsCollect ==
    /\ pc = "idle"
    /\ LET sources == Sources(is_root)
           lists == [k \in 1..Len(sources) |-> list_all_jobs(sources[k])]
       IN  /\ all_jobs' = Flatten(lists)
           /\ stats' = CollectStats(sources, lists)
    /\ next_runs' = <<>>
    /\ printed' = <<>>
    /\ idx' = 1
    /\ pc' = "project"
    /\ UNCHANGED <<menu, search, is_root, user_cron, system_cron, crontab_user, etc_crontab, cron_d,
                   periodic, croniter, now, listed, console, calls, fmt>>

\* one pass of "for job in all_jobs": a job that is skipped
StatsSkip ==
    /\ pc = "project"
    /\ idx <= Len(all_jobs)
    /\ ~Eligible(all_jobs[idx])
    /\ idx' = idx + 1
    /\ UNCHANGED <<menu, search, is_root, user_cron, system_cron, crontab_user, etc_crontab, cron_d,
                   periodic, croniter, now, pc, listed, all_jobs, stats, next_runs,
                   printed, console, calls, fmt>>

\* one pass: job.schedule().get_next(datetime) returns an instant after now
StatsNextRun ==
    /\ pc = "project"
    /\ idx <= Len(all_jobs)
    /\ Eligible(all_jobs[idx])
    /\ croniter
    /\ \E e \in Elapses(now), d \in 1..MaxLibDelay :
        /\ now' = now + e
        /\ next_runs' = Append(next_runs,
                [kind |-> "run", t |-> now + e + d, cmd |-> CmdDisplay(all_jobs[idx].command),
                 user |-> all_jobs[idx].user, src |-> idx, at |-> now + e])
    /\ idx' = idx + 1
    /\ UNCHANGED <<menu, search, is_root, user_cron, system_cron, crontab_user, etc_crontab, cron_d,
                   periodic, croniter, pc, listed, all_jobs, stats, printed, console, calls, fmt>>

\* one pass: job.schedule() raises (no croniter, or nothing to compute for
\* @reboot) and the except branch runs
StatsExcept ==
    /\ pc = "project"
    /\ idx <= Len(all_jobs)
    /\ Eligible(all_jobs[idx])
    /\ ~croniter \/ all_jobs[idx].schedule = AtReboot
    /\ \E e1 \in Elapses(now) : \E e2 \in Elapses(now + e1) :
        /\ now' = (IF all_jobs[idx].schedule = AtWeekly THEN now + e1 + e2 ELSE now + e1)
        /\ ExceptBranch(all_jobs[idx], idx, now + e1, now + e1 + e2)
    /\ idx' = idx + 1
    /\ UNCHANGED <<menu, search, is_root, user_cron, system_cron, crontab_user, etc_crontab, cron_d,
                   periodic, croniter, pc, listed, all_jobs, stats, console, calls, fmt>>

\* next_runs.sort(key=lambda x: x[0])
StatsSort ==
    /\ pc = "project"
    /\ idx > Len(all_jobs)
    /\ next_runs' = SortRuns(next_runs)
    /\ idx' = 1
    /\ pc' = "print"
    /\ UNCHANGED <<menu, search, is_root, user_cron, system_cron, crontab_user, etc_crontab, cron_d,
                   periodic, croniter, now, listed, all_jobs, stats, printed, console, calls, fmt>>

\* one pass of "for next_run, command, user in next_runs[:10]"
StatsPrint ==
    /\ pc = "print"
    /\ idx <= Len(next_runs) /\ idx <= TopN
    /\ \E e \in Elapses(now) :
        /\ now' = now + e
        /\ printed' = (IF Shown(next_runs[idx].t, now + e)
                       THEN Append(printed, [next_runs[idx] EXCEPT !.at = now + e])
                       ELSE printed)
    /\ idx' = idx + 1
    /\ UNCHANGED <<menu, search, is_root, user_cron, system_cron, crontab_user, etc_crontab, cron_d,
                   periodic, croniter, pc, listed, all_jobs, stats, next_runs, console, calls, fmt>>

\* the end of the handler
StatsDone ==
    /\ pc = "print"
    /\ idx > Len(next_runs) \/ idx > TopN
    /\ pc' = "done"
    /\ UNCHANGED <<menu, search, is_root, user_cron, system_cron, crontab_user, etc_crontab, cron_d,
                   periodic, croniter, now, listed, all_jobs, stats, next_runs, idx,
                   printed, console, calls, fmt>>

-----------------------------------------------------------------------------
(* search_jobs.                                                            *)

\* the test of the loop over jobs, without the lower-casing
KeywordMatchesCaseSensitive(keyword, job) ==
    Contains(keyword, job.command) \/ Contains(keyword, job.comment)

\* keyword.lower() in job['command'].lower() or
\* keyword.lower() in job['comment'].lower()
KeywordMatches(keyword, job) ==
    \/ Contains(Lower(keyword), Lower(job.command))
    \/ Contains(Lower(keyword), Lower(job.comment))

\* sources of search_jobs
SearchSources(root) == IF root THEN <<T_User, T_System, T_CronD, T_Periodic>> ELSE <<T_User>>

\* the answer of questionary.text(...).ask(): cancelled (None) or a text
NoKeyword(answer) == ~answer.given \/ answer.text = <<>>

\* the loop over the sources without the early return
SearchMatchesUnguarded(answer, lists) ==
    [k \in 1..Len(lists) |-> SelectSeq(lists[k], LAMBDA job : KeywordMatches(answer.text, job))]

\* the matches of each source: nothing after "if not keyword: return",
\* else for lists[k] = list_all_jobs(sources[k]) the jobs that match
SearchMatches(answer, lists) ==
    IF NoKeyword(answer) THEN <<>>
    ELSE [k \in 1..Len(lists) |->
            SelectSeq(lists[k], LAMBDA job : KeywordMatches(answer.text, job))]

Keywords ==
    {<<>>, <<"A">>, <<"S">>, <<"q">>, <<"a", "u", "s">>, <<"J", "O", "B">>}

KeywordAnswers ==
    {[given |-> FALSE, text |-> <<>>]} \cup {[given |-> TRUE, text |-> k] : k \in Keywords}

\* CronManager.search_jobs
SearchJobs ==
    /\ pc = "idle"
    /\ \E answer \in KeywordAnswers :
        LET sources == SearchSources(is_root)
            lists == [k \in 1..Len(sources) |-> list_all_jobs(sources[k])]
            matches == SearchMatches(answer, lists)
        IN  search' = [answer |-> answer,
                       matches |-> matches,
                       out |-> IF NoKeyword(answer) THEN ""
                               ELSE IF \A k \in 1..Len(matches) : matches[k] = <<>>
                               THEN "Keine Treffer" ELSE "Treffer"]
    /\ pc' = "searched"
    /\ UNCHANGED <<menu, is_root, user_cron, system_cron, crontab_user, etc_crontab, cron_d,
                   periodic, croniter, now, listed, all_jobs, stats, next_runs, idx,
                   printed, console, calls, fmt>>

InitStats ==
    /\ \E w \in StatsWorlds : Constructed(w)
    \* the long table is run without croniter only
    /\ croniter \in (IF user_cron = ManyJobs THEN {FALSE} ELSE BOOLEAN)
    /\ now \in StartClocks
    /\ fmt = NoFmt

NextStats ==
    \/ StatsCollect
    \/ StatsSkip
    \/ StatsNextRun
    \/ StatsExcept
    \/ StatsSort
    \/ StatsPrint
    \/ StatsDone
    \/ SearchJobs

SpecStats == InitStats /\ [][NextStats]_vars

-----------------------------------------------------------------------------
(* The schedule label and the frequency bucket as functions of the         *)
(* schedule string (SpecFmt): display_jobs_table gives every listed        *)
(* schedule to _format_schedule, show_job_statistics to the bucket chain.  *)

\* the longest run of blanks between two fields of a schedule string
MaxGap == 2

MinuteToks == {STAR, <<"0">>, <<"*", "/", "5">>, <<"3", "0">>, <<"6", "0">>}
HourToks == {STAR, <<"0">>}
DayToks == {STAR, <<"1">>}
MonthToks == {STAR}
WeekdayToks == {STAR, <<"0">>, <<"7">>}

Blanks(n) == [i \in 1..n |-> " "]
Gaps == {Blanks(n) : n \in 1..MaxGap} \cup {<<"\t">>}

\* the five-field strings over the tokens, the fields gap apart
FiveFields(gap) ==
    {Join(<<a, b, c, d, e>>, gap) :
        a \in MinuteToks, b \in HourToks, c \in DayToks, d \in MonthToks, e \in WeekdayToks}

S_fourfields == <<"*", " ", "*", " ", "*", " ", "*">>

FmtInputs == UNION {FiveFields(g) : g \in Gaps} \cup Symbolic \cup {S_fourfields}
FmtSecond == FiveFields(SP) \cup {AtWeekly}

\* the label and the bucket of each schedule of fmt.in
FormatSchedules ==
    /\ fmt.label = <<>>
    /\ fmt' = [in |-> fmt.in,
               label |-> [i \in 1..Len(fmt.in) |-> _format_schedule(fmt.in[i])],
               bucket |-> [i \in 1..Len(fmt.in) |-> FrequencyBucket(fmt.in[i])]]
    /\ UNCHANGED <<menu, search, is_root, user_cron, system_cron, crontab_user, etc_crontab, cron_d,
                   periodic, croniter, now, pc, listed, all_jobs, stats, next_runs, idx,
                   printed, console, calls>>

InitFmt ==
    /\ Constructed([root |-> FALSE, user |-> <<>>, etc |-> EtcMissing, crond |-> NoDir,
                    per |-> PerNone])
    /\ croniter = FALSE
    /\ now \in {Instant(2024, 1, 17, 10, 59, 59, 0)}
    /\ \E a \in FmtInputs, b \in FmtSecond : fmt = [in |-> <<a, b>>, label |-> <<>>, bucket |-> <<>>]

NextFmt == FormatSchedules

SpecFmt == InitFmt /\ [][NextFmt]_vars

-----------------------------------------------------------------------------
(* Listing while other processes change the stores (SpecList).             *)

\* the number of list_all_jobs calls of a session
MaxLists == 2

CronTypes == {"user", T_User, T_System, T_Periodic, T_CronD, "Zurück"}

\* one call of list_all_jobs
ListAllJobs ==
    /\ listed.n < MaxLists
    /\ \E cron_type \in CronTypes :
        listed' = [cron_type |-> cron_type, jobs |-> list_all_jobs(cron_type),
                   n |-> listed.n + 1]
    /\ UNCHANGED <<menu, search, is_root, user_cron, system_cron, crontab_user, etc_crontab, cron_d,
                   periodic, croniter, now, pc, all_jobs, stats, next_runs, idx,
                   printed, console, calls, fmt>>

\* another process installs a new user table (crontab -e) between two calls
ExternalUserEdit ==
    /\ listed.n \in 1..(MaxLists - 1)
    /\ crontab_user' \in SeqsUpTo(UserItems, 1) \ {crontab_user}
    /\ UNCHANGED <<menu, search, is_root, user_cron, system_cron, etc_crontab, cron_d,
                   periodic, croniter, now, pc, listed, all_jobs, stats, next_runs, idx,
                   printed, console, calls, fmt>>

\* another process rewrites /etc/crontab between two calls
ExternalEtcEdit ==
    /\ listed.n \in 1..(MaxLists - 1)
    /\ etc_crontab' \in EtcFiles \ {etc_crontab}
    /\ UNCHANGED <<menu, search, is_root, user_cron, system_cron, crontab_user, cron_d,
                   periodic, croniter, now, pc, listed, all_jobs, stats, next_runs, idx,
                   printed, console, calls, fmt>>

\* another process changes /etc/cron.d between two calls
ExternalCronDEdit ==
    /\ listed.n \in 1..(MaxLists - 1)
    /\ cron_d' \in CronDDirs \ {cron_d}
    /\ UNCHANGED <<menu, search, is_root, user_cron, system_cron, crontab_user, etc_crontab,
                   periodic, croniter, now, pc, listed, all_jobs, stats, next_runs, idx,
                   printed, console, calls, fmt>>

\* another process changes the /etc/cron.<period> directories between two calls
ExternalPeriodicEdit ==
    /\ listed.n \in 1..(MaxLists - 1)
    /\ periodic' \in PeriodicDirs \ {periodic}
    /\ UNCHANGED <<menu, search, is_root, user_cron, system_cron, crontab_user, etc_crontab, cron_d,
                   croniter, now, pc, listed, all_jobs, stats, next_runs, idx,
                   printed, console, calls, fmt>>

\* a drop-in file with an entry for the structured parse and a line for the
\* line-oriented parser
FileBoth(name, parses) ==
    File(name, TRUE, parses, <<[Item(<<"w">> \o name, S_sun0030, TRUE) EXCEPT !.comment = <<"c">>]>>,
         <<Line_comment, Line_sunday0>>)

\* three drop-in files, any of which the structured parse fails on
DirsOfThree ==
    {[exists |-> TRUE,
      entries |-> <<FileBoth(<<"f">>, p1), FileBoth(<<"g">>, p2), FileBoth(<<"h">>, p3)>>] :
        p1 \in BOOLEAN, p2 \in BOOLEAN, p3 \in BOOLEAN}

\* a dotfile, a README, a subdirectory, .placeholder, and an unreadable file
DirOddEntries ==
    [exists |-> TRUE,
     entries |-> <<FileBoth(<<".", "h">>, TRUE),
                   FileBoth(Str_README, TRUE),
                   [FileBoth(<<"s">>, TRUE) EXCEPT !.isfile = FALSE],
                   FileBoth(Str_placeholder, FALSE),
                   [FileBoth(<<"u">>, FALSE) EXCEPT !.readable = FALSE],
                   FileBoth(<<".", "k">>, FALSE),
                   FileBoth(<<"f">>, TRUE)>>]

\* lines for the line-oriented parser: an indented entry with two blanks
\* and a tab inside its command, a variable assignment, a line of blanks, an
\* indented comment, an entry with six tokens, an entry with seven tokens
Line_indented ==
    <<" ", "5", " ", " ", "*", "\t", "*", " ", "*", " ", "1", " ", "m", "e", " ",
      "y", " ", " ", "z", "\t", "-", "v", " ">>
Line_assignment == <<"A", "=", "b">>
Line_blanks == <<" ", "\t", " ">>
Line_indented_comment == <<" ", "#", " ", "0", " ", "0", " ", "*", " ", "*", " ", "0", " ", "r", " ", "x">>
Line_sixtokens == <<"0", " ", "0", " ", "*", " ", "*", " ", "0", " ", "x">>
DirLines ==
    [exists |-> TRUE,
     entries |-> <<File(<<"l">>, TRUE, FALSE, <<>>,
                        <<Line_indented, Line_assignment, Line_blanks,
                          Line_indented_comment, Line_sixtokens, Line_sunday7>>)>>]

ListWorlds ==
    {[root |-> r, user |-> u, etc |-> e, crond |-> c, per |-> p] :
        r \in BOOLEAN, u \in SeqsUpTo(UserItems, 1), e \in EtcFiles,
        c \in {NoDir, DirFallback}, p \in {PerNone, PerHourly}}
    \cup
    {[root |-> TRUE, user |-> <<>>, etc |-> EtcMissing, crond |-> c, per |-> PerNone] :
        c \in DirsOfThree \cup {DirOddEntries, DirLines}}
    \cup
    {[root |-> r, user |-> <<>>, etc |-> EtcMissing, crond |-> NoDir, per |-> PerOdd] :
        r \in BOOLEAN}

InitList ==
    /\ \E w \in ListWorlds : Constructed(w)
    /\ croniter = FALSE
    /\ now \in {Instant(2024, 1, 17, 10, 59, 59, 0)}
    /\ fmt = NoFmt

NextList ==
    \/ ListAllJobs
    \/ ExternalUserEdit
    \/ ExternalEtcEdit
    \/ ExternalCronDEdit
    \/ ExternalPeriodicEdit

SpecList == InitList /\ [][NextList]_vars

-----------------------------------------------------------------------------
(* The job-creating handlers (SpecMut): add_job, import_jobs and           *)
(* add_system_job with _add_to_cron_d.                                     *)

\* the number of handlers run in a session
MaxCalls == 2

S_min60 == <<"6", "0", " ", "*", " ", "*", " ", "*", " ", "*">>
Str_x == <<"x">>
Str_wrapper == <<"/", "w">>

\* str(None)
Str_None == <<"N", "o", "n", "e">>

\* the first lines of a file written by _add_to_cron_d
CronDHeader ==
    << <<"#", " ", "E", "r", "s", "t", "e", "l", "l", "t">>,
       <<"S", "H", "E", "L", "L", "=", "/", "b", "i", "n", "/", "b", "a", "s", "h">>,
       <<"P", "A", "T", "H", "=", "/", "b", "i", "n">>,
       <<>> >>

\* the schedules _create_schedule and _select_job_template hand to add_job,
\* and the schedules of the entries of an import file
AddSchedules == {S_daily, S_min60, S_fourfields, S_sunday7, AtReboot}

\* job.setall(schedule) raises
SetallRaises(schedule) == ~IsValidSchedule(schedule)

\* add_job with the table written before the schedule is set
add_job_writes_first(tab, disk, command, schedule, enable_logging) ==
    LET actual_command == IF enable_logging THEN Str_wrapper ELSE command
        fresh == Append(tab, Item(actual_command, S_minute, TRUE))
        set == Append(tab, Item(actual_command, schedule, TRUE))
    IN  IF command = <<>> \/ schedule = <<>>
        THEN [user_cron |-> tab, crontab_user |-> disk,
              console |-> [op |-> "add_job", schedule |-> <<>>, out |-> "",
                           wrote |-> FALSE, imported |-> 0, persisted |-> <<>>]]
        ELSE IF SetallRaises(schedule)
        THEN [user_cron |-> fresh, crontab_user |-> fresh,
              console |-> [op |-> "add_job", schedule |-> schedule, out |-> "error",
                           wrote |-> TRUE, imported |-> 0, persisted |-> <<S_minute>>]]
        ELSE [user_cron |-> set, crontab_user |-> set,
              console |-> [op |-> "add_job", schedule |-> schedule, out |-> "success",
                           wrote |-> TRUE, imported |-> 0, persisted |-> <<schedule>>]]

\* CronManager.add_job on the loaded table tab and the persisted table disk:
\* the tables and the console after it. new() appends an entry of every
\* minute; an entry whose setall raised stays in the loaded table as new()
\* made it. An empty command or schedule is a cancelled prompt: the handler
\* returns before a schedule is set.
add_job(tab, disk, command, schedule, enable_logging) ==
    LET actual_command == IF enable_logging THEN Str_wrapper ELSE command
        fresh == Append(tab, Item(actual_command, S_minute, TRUE))
        set == Append(tab, Item(actual_command, schedule, TRUE))
    IN  IF command = <<>> \/ schedule = <<>>
        THEN [user_cron |-> tab, crontab_user |-> disk,
              console |-> [op |-> "add_job", schedule |-> <<>>, out |-> "",
                           wrote |-> FALSE, imported |-> 0, persisted |-> <<>>]]
        ELSE IF SetallRaises(schedule)
        THEN [user_cron |-> fresh, crontab_user |-> disk,
              console |-> [op |-> "add_job", schedule |-> schedule, out |-> "error",
                           wrote |-> FALSE, imported |-> 0, persisted |-> <<>>]]
        ELSE [user_cron |-> set, crontab_user |-> set,
              console |-> [op |-> "add_job", schedule |-> schedule, out |-> "success",
                           wrote |-> TRUE, imported |-> 0, persisted |-> <<schedule>>]]

AddJob ==
    /\ calls < MaxCalls
    /\ \E command \in {<<>>, Str_x}, schedule \in AddSchedules \cup {<<>>},
          enable_logging \in BOOLEAN :
        LET r == add_job(user_cron, crontab_user, command, schedule, enable_logging)
        IN  /\ user_cron' = r.user_cron
            /\ crontab_user' = r.crontab_user
            /\ console' = r.console
    /\ calls' = calls + 1
    /\ UNCHANGED <<menu, search, is_root, system_cron, etc_crontab, cron_d, periodic, croniter, now, pc,
                   listed, all_jobs, stats, next_runs, idx, printed, fmt>>

\* an entry of an export file
JobData(source, schedule, enabled) ==
    [source |-> source, command |-> Str_x, comment |-> <<>>, schedule |-> schedule,
     enabled |-> enabled]

\* the job lists of the export files
ImportFiles ==
    {<<>>,
     <<JobData(Str_user, S_daily, TRUE)>>,
     <<JobData(Str_user, S_min60, TRUE), JobData(Str_user, AtReboot, FALSE)>>,
     <<JobData(Str_system, S_daily, TRUE), JobData(Str_user, S_sunday7, TRUE)>>}

RECURSIVE ImportInto(_, _)
\* the loop of import_jobs over jobs, on the loaded table tab
ImportInto(tab, jobs) ==
    IF jobs = <<>> THEN tab
    ELSE LET job_data == Head(jobs)
             next == IF job_data.source # Str_user THEN tab
                     ELSE IF SetallRaises(job_data.schedule)
                          THEN Append(tab, Item(job_data.command, S_minute, TRUE))
                          ELSE Append(tab, Item(job_data.command, job_data.schedule,
                                                job_data.enabled))
         IN  ImportInto(next, Tail(jobs))

\* CronManager.import_jobs; file_choice is "" when there are no files
ImportJobs ==
    /\ calls < MaxCalls
    /\ \E file_choice \in {"", "Zurück", "jobs.cron", "cronjobs_export_1.json"},
          jobs \in ImportFiles, confirm \in BOOLEAN :
        IF file_choice = "cronjobs_export_1.json" /\ confirm
        THEN LET tab == ImportInto(user_cron, jobs)
             IN  /\ user_cron' = tab
                 /\ crontab_user' = tab
                 /\ console' = [op |-> "import_jobs", schedule |-> <<>>, out |-> "success",
                                wrote |-> TRUE,
                                imported |-> Cardinality({i \in 1..Len(jobs) :
                                                /\ jobs[i].source = Str_user
                                                /\ ~SetallRaises(jobs[i].schedule)}),
                                persisted |-> [i \in 1..(Len(tab) - Len(user_cron)) |->
                                                 tab[Len(user_cron) + i].slices]]
        ELSE /\ console' = [op |-> "import_jobs", schedule |-> <<>>, out |-> "",
                            wrote |-> FALSE, imported |-> 0, persisted |-> <<>>]
             /\ UNCHANGED <<user_cron, crontab_user>>
    /\ calls' = calls + 1
    /\ UNCHANGED <<menu, search, is_root, system_cron, etc_crontab, cron_d, periodic, croniter, now, pc,
                   listed, all_jobs, stats, next_runs, idx, printed, fmt>>

Weekdays == <<"Montag", "Dienstag", "Mittwoch", "Donnerstag", "Freitag", "Samstag", "Sonntag">>

\* list.index(x)
IndexOf(seq, x) == (CHOOSE i \in 1..Len(seq) : seq[i] = x) - 1

\* str(n) for n in 0..9
DigitStr(n) == <<Digits[n + 1]>>

\* CronManager._get_schedule_input: the answers are the texts typed at the
\* prompts; hm is time.split(":"), custom is Str_None when the prompt was
\* cancelled
_get_schedule_input(schedule_choice, minute, hm, weekday, day, custom) ==
    IF schedule_choice = "Jede Minute" THEN S_minute
    ELSE IF schedule_choice = "Stündlich"
         THEN Join(<<minute, STAR, STAR, STAR, STAR>>, SP)
    ELSE IF schedule_choice = "Täglich"
         THEN Join(<<hm[2], hm[1], STAR, STAR, STAR>>, SP)
    ELSE IF schedule_choice = "Wöchentlich"
         THEN LET weekday_num == IndexOf(Weekdays, weekday) + 1
              IN  Join(<<hm[2], hm[1], STAR, STAR, DigitStr(weekday_num % 7)>>, SP)
    ELSE IF schedule_choice = "Monatlich"
         THEN Join(<<hm[2], hm[1], day, STAR, STAR>>, SP)
    ELSE IF schedule_choice = "@reboot (Bei Systemstart)" THEN AtReboot
    ELSE custom

\* the directory after open(filepath, 'w') and f.write: the file is replaced
\* or added
WriteCronDFile(dir, file) ==
    IF \E i \in 1..Len(dir.entries) : dir.entries[i].name = file.name
    THEN [dir EXCEPT !.entries = [i \in 1..Len(dir.entries) |->
                                    IF dir.entries[i].name = file.name THEN file
                                    ELSE dir.entries[i]]]
    ELSE [dir EXCEPT !.entries = Append(dir.entries, file)]

\* the answers to the prompts of _get_schedule_input
Answers(schedule_choice, minute, time, weekday, custom) ==
    [schedule_choice |-> schedule_choice, minute |-> minute, time |-> time,
     weekday |-> weekday, day |-> <<"1">>, custom |-> custom]

Midnight == <<"0", "0", ":", "0", "0">>

ScheduleAnswers ==
    {Answers("Jede Minute", <<>>, Midnight, "Montag", <<>>),
     Answers("Stündlich", <<"0">>, Midnight, "Montag", <<>>),
     Answers("Stündlich", <<"6", "0">>, Midnight, "Montag", <<>>),
     Answers("Täglich", <<>>, Midnight, "Montag", <<>>),
     Answers("Täglich", <<>>, <<"2", "5", ":", "0", "0">>, "Montag", <<>>),
     Answers("Wöchentlich", <<>>, Midnight, "Montag", <<>>),
     Answers("Wöchentlich", <<>>, Midnight, "Sonntag", <<>>),
     Answers("Monatlich", <<>>, Midnight, "Montag", <<>>),
     Answers("@reboot (Bei Systemstart)", <<>>, Midnight, "Montag", <<>>),
     Answers("Benutzerdefiniert", <<>>, Midnight, "Montag", Str_None),
     Answers("Benutzerdefiniert", <<>>, Midnight, "Montag", S_fourfields),
     Answers("Benutzerdefiniert", <<>>, Midnight, "Montag", S_every5)}

\* open(filepath, 'w') raises: no /etc/cron.d, or the name is a directory
OpenRaises(dir, filename) ==
    \/ ~dir.exists
    \/ \E i \in 1..Len(dir.entries) :
          dir.entries[i].name = filename /\ ~dir.entries[i].isfile

\* add_system_job with the location "/etc/cron.d/ (eigene Datei)", and
\* _add_to_cron_d
AddToCronD ==
    /\ calls < MaxCalls
    /\ \E filename \in {<<>>, <<"g">>, <<"n">>}, a \in ScheduleAnswers, parses \in BOOLEAN :
        LET schedule == _get_schedule_input(a.schedule_choice, a.minute,
                                            SplitOn(a.time, ":"), a.weekday, a.day,
                                            a.custom)
            entry == schedule \o SP \o Str_root \o SP \o Str_x
            file == File(filename, TRUE, parses,
                         IF parses /\ IsValidSchedule(schedule)
                         THEN <<Item(Str_x, schedule, TRUE)>> ELSE <<>>,
                         Append(CronDHeader, entry))
        IN  IF ~is_root
            THEN /\ console' = [op |-> "add_system_job", schedule |-> <<>>, out |-> "error",
                                wrote |-> FALSE, imported |-> 0, persisted |-> <<>>]
                 /\ UNCHANGED cron_d
            ELSE IF filename = <<>>
            THEN /\ console' = [op |-> "_add_to_cron_d", schedule |-> <<>>, out |-> "",
                                wrote |-> FALSE, imported |-> 0, persisted |-> <<>>]
                 /\ UNCHANGED cron_d
            ELSE IF OpenRaises(cron_d, filename)
            THEN /\ console' = [op |-> "_add_to_cron_d", schedule |-> schedule,
                                out |-> "error", wrote |-> FALSE, imported |-> 0, persisted |-> <<>>]
                 /\ UNCHANGED cron_d
            ELSE /\ console' = [op |-> "_add_to_cron_d", schedule |-> schedule,
                                out |-> "success", wrote |-> TRUE,
                                imported |-> 0, persisted |-> <<schedule>>]
                 /\ cron_d' = WriteCronDFile(cron_d, file)
    /\ calls' = calls + 1
    /\ UNCHANGED <<menu, search, is_root, user_cron, system_cron, crontab_user, etc_crontab, periodic,
                   croniter, now, pc, listed, all_jobs, stats, next_runs, idx, printed, fmt>>

MutWorlds ==
    {[root |-> r, user |-> u, etc |-> EtcMissing, crond |-> c, per |-> PerNone] :
        r \in BOOLEAN, u \in SeqsUpTo(RootUserItems, 1), c \in {NoDir, DirFallback}}

InitMut ==
    /\ \E w \in MutWorlds : Constructed(w)
    /\ croniter = FALSE
    /\ now \in {Instant(2024, 1, 17, 10, 59, 59, 0)}
    /\ fmt = NoFmt

NextMut ==
    \/ AddJob
    \/ ImportJobs
    \/ AddToCronD

SpecMut == InitMut /\ [][NextMut]_vars

-----------------------------------------------------------------------------
(* The main menu (SpecMenu): which handler a menu item starts.  The        *)
(* pictograph and the blanks in front of the text of an item are left out: *)
(* no test of the dispatch looks at them.                                  *)

\* the number of selections of a session
MaxMenu == 2

M_JobsAnzeigen ==
    <<"J", "o", "b", "s", " ", "a", "n", "z", "e", "i", "g", "e", "n">>
M_JobHinzufuegen ==
    <<"J", "o", "b", " ", "h", "i", "n", "z", "u", "f", "ü", "g", "e", "n">>
M_JobBearbeiten ==
    <<"J", "o", "b", " ", "b", "e", "a", "r", "b", "e", "i", "t", "e", "n", "/", "a", "u",
      "s", "f", "ü", "h", "r", "e", "n">>
M_JobsDurchsuchen ==
    <<"J", "o", "b", "s", " ", "d", "u", "r", "c", "h", "s", "u", "c", "h", "e", "n">>
M_JobStatistiken ==
    <<"J", "o", "b", "-", "S", "t", "a", "t", "i", "s", "t", "i", "k", "e", "n">>
M_JobLogsAnzeigen ==
    <<"J", "o", "b", "-", "L", "o", "g", "s", " ", "a", "n", "z", "e", "i", "g", "e", "n">>
M_JobUeberwachung ==
    <<"J", "o", "b", "-", "Ü", "b", "e", "r", "w", "a", "c", "h", "u", "n", "g">>
M_Benachrichtigungen ==
    <<"E", "-", "M", "a", "i", "l", "-", "B", "e", "n", "a", "c", "h", "r", "i", "c", "h",
      "t", "i", "g", "u", "n", "g", "e", "n">>
M_JobsExportieren ==
    <<"J", "o", "b", "s", " ", "e", "x", "p", "o", "r", "t", "i", "e", "r", "e", "n">>
M_JobsImportieren ==
    <<"J", "o", "b", "s", " ", "i", "m", "p", "o", "r", "t", "i", "e", "r", "e", "n">>
M_CrontabValidieren ==
    <<"C", "r", "o", "n", "t", "a", "b", " ", "v", "a", "l", "i", "d", "i", "e", "r", "e",
      "n">>
M_BackupErstellen ==
    <<"B", "a", "c", "k", "u", "p", " ", "e", "r", "s", "t", "e", "l", "l", "e", "n">>
M_Aktualisieren ==
    <<"B", "i", "l", "d", "s", "c", "h", "i", "r", "m", " ", "a", "k", "t", "u", "a", "l",
      "i", "s", "i", "e", "r", "e", "n">>
M_SystemJobHinzufuegen ==
    <<"S", "y", "s", "t", "e", "m", "-", "J", "o", "b", " ", "h", "i", "n", "z", "u", "f",
      "ü", "g", "e", "n">>
M_Beenden ==
    <<"B", "e", "e", "n", "d", "e", "n">>

\* menu_items
MenuItems(root) ==
    <<M_JobsAnzeigen, M_JobHinzufuegen, M_JobBearbeiten, M_JobsDurchsuchen, M_JobStatistiken,
      M_JobLogsAnzeigen, M_JobUeberwachung, M_Benachrichtigungen, M_JobsExportieren,
      M_JobsImportieren, M_CrontabValidieren, M_BackupErstellen, M_Aktualisieren>>
    \o (IF root THEN <<M_SystemJobHinzufuegen>> ELSE <<>>)
    \o <<M_Beenden>>

\* the if/elif chain of the menu loop: the handler that a choice starts;
\* choice is <<>> when the prompt was cancelled
Dispatch(choice) ==
    IF choice = <<>> \/ Contains(<<"B", "e", "e", "n", "d", "e", "n">>, choice) THEN "break"
    ELSE IF Contains(<<"a", "n", "z", "e", "i", "g", "e", "n">>, choice) THEN "display_jobs_table"
    ELSE IF Contains(<<"h", "i", "n", "z", "u", "f", "ü", "g", "e", "n">>, choice) THEN "add_job"
    ELSE IF Contains(<<"b", "e", "a", "r", "b", "e", "i", "t", "e", "n">>, choice) THEN "edit_job"
    ELSE IF Contains(<<"d", "u", "r", "c", "h", "s", "u", "c", "h", "e", "n">>, choice) THEN "search_jobs"
    ELSE IF Contains(<<"e", "x", "p", "o", "r", "t", "i", "e", "r", "e", "n">>, choice) THEN "export_jobs"
    ELSE IF Contains(<<"i", "m", "p", "o", "r", "t", "i", "e", "r", "e", "n">>, choice) THEN "import_jobs"
    ELSE IF Contains(<<"v", "a", "l", "i", "d", "i", "e", "r", "e", "n">>, choice) THEN "validate_crontab"
    ELSE IF Contains(<<"B", "a", "c", "k", "u", "p">>, choice) THEN "create_backup"
    ELSE IF Contains(<<"S", "t", "a", "t", "i", "s", "t", "i", "k", "e", "n">>, choice) THEN "show_job_statistics"
    ELSE IF Contains(<<"L", "o", "g", "s">>, choice) THEN "view_job_logs"
    ELSE IF Contains(<<"Ü", "b", "e", "r", "w", "a", "c", "h", "u", "n", "g">>, choice) THEN "monitor_jobs"
    ELSE IF Contains(<<"B", "e", "n", "a", "c", "h", "r", "i", "c", "h", "t", "i", "g", "u", "n", "g", "e", "n">>, choice) THEN "configure_notifications"
    ELSE IF Contains(<<"S", "y", "s", "t", "e", "m", "-", "J", "o", "b">>, choice) THEN "add_system_job"
    ELSE IF Contains(<<"a", "k", "t", "u", "a", "l", "i", "s", "i", "e", "r", "e", "n">>, choice) THEN "show_main_menu"
    ELSE "none"

\* one pass of the menu loop: the selection and the handler it starts, with
\* the get_cron_type prompt and the listing of the branches that show the
\* jobs table (the other handlers are the actions of the other
\* specifications)
MenuSelect ==
    /\ Len(menu) < MaxMenu
    /\ \A i \in 1..Len(menu) : menu[i].handler # "break"
    /\ \E k \in 0..Len(MenuItems(is_root)) :
        LET choice == IF k = 0 THEN <<>> ELSE MenuItems(is_root)[k]
            handler == Dispatch(choice)
        IN  IF handler \in {"display_jobs_table", "edit_job"}
            THEN \E c \in 0..Len(CronTypeChoices) :
                    LET cron_type == IF c = 0 THEN "Zurück" ELSE CronTypeChoices[c]
                    IN  /\ menu' = Append(menu, [choice |-> choice, handler |-> handler,
                                                  cron_type |-> cron_type])
                        /\ listed' = (IF cron_type = "Zurück" THEN listed
                                      ELSE [cron_type |-> cron_type,
                                            jobs |-> list_all_jobs(cron_type),
                                            n |-> listed.n + 1])
            ELSE /\ menu' = Append(menu, [choice |-> choice, handler |-> handler,
                                           cron_type |-> ""])
                 /\ UNCHANGED listed
    /\ UNCHANGED <<search, is_root, user_cron, system_cron, crontab_user, etc_crontab, cron_d,
                   periodic, croniter, now, pc, all_jobs, stats, next_runs, idx,
                   printed, console, calls, fmt>>

InitMenu ==
    /\ \E w \in MutWorlds : Constructed(w)
    /\ croniter = FALSE
    /\ now \in {Instant(2024, 1, 17, 10, 59, 59, 0)}
    /\ fmt = NoFmt

NextMenu == MenuSelect

SpecMenu == InitMenu /\ [][NextMenu]_vars

-----------------------------------------------------------------------------
(* Properties of show_job_statistics (SpecStats).                          *)

\* the projection loop is over: next_runs is complete and sorted
Projected == pc \in {"print", "done"}

\* the lines of the next-run list that were printed
PrintedRuns == SelectSeq(printed, LAMBDA r : r.kind = "run")

\* the number of entries of next_runs that job k of all_jobs contributed
EntriesOf(k) == Cardinality({i \in 1..Len(next_runs) : next_runs[i].src = k})

\* C1: once the projection loop is over, every enabled job of all_jobs whose
\* schedule is not @reboot has exactly one entry in next_runs, records
\* without a handle (job = None) included, and only the other jobs have none.
C1_EveryEnabledJobProjected ==
    Projected =>
        \A k \in 1..Len(all_jobs) :
            (all_jobs[k].enabled /\ all_jobs[k].schedule # AtReboot) => EntriesOf(k) = 1

\* C2: no entry of next_runs and no printed line belongs to a disabled job,
\* and after the sort the instants of next_runs, and of the printed lines
\* in the order they were printed, never decrease.
C2_NoDisabledAndSorted ==
    /\ \A i \in 1..Len(next_runs) : all_jobs[next_runs[i].src].enabled
    /\ \A i \in 1..Len(PrintedRuns) : all_jobs[PrintedRuns[i].src].enabled
    /\ Projected =>
        /\ \A i, j \in 1..Len(next_runs) : i < j => next_runs[i].t <= next_runs[j].t
        /\ \A i, j \in 1..Len(PrintedRuns) : i < j => PrintedRuns[i].t <= PrintedRuns[j].t

\* C2 witness: the run is over, a disabled job was listed, and two printed
\* lines with different instants are in the reverse of their jobs' order.
C2_Witness ==
    /\ pc = "done"
    /\ \E k \in 1..Len(all_jobs) : ~all_jobs[k].enabled
    /\ \E i, j \in 1..Len(PrintedRuns) :
        /\ i < j
        /\ PrintedRuns[i].t < PrintedRuns[j].t
        /\ PrintedRuns[i].src > PrintedRuns[j].src

\* C3: every printed next-run line has an instant strictly after the clock
\* reading it was printed at, which is not before the reading it was
\* computed from nor before any earlier reading of the run.
C3_PrintedAfterNow ==
    \A i \in 1..Len(PrintedRuns) :
        /\ PrintedRuns[i].t > PrintedRuns[i].at
        /\ PrintedRuns[i].at <= now

\* C3 witness: the run is over, a line of an @weekly job computed in the
\* except branch and a line of a croniter instant were printed, and one of
\* the first ten entries was held back because its instant had passed.
C3_Witness ==
    /\ pc = "done"
    /\ \E i \in 1..Len(PrintedRuns) : all_jobs[PrintedRuns[i].src].schedule \in {AtWeekly, AtHourly}
    /\ \E i \in 1..Len(next_runs) :
        /\ i <= TopN
        /\ \A j \in 1..Len(PrintedRuns) : PrintedRuns[j].src # next_runs[i].src

\* the bucket of a schedule compared as a whole against the fixed shapes
WholeScheduleBucket(schedule) ==
    IF schedule = S_minute THEN "minute"
    ELSE IF schedule \in {S_hourly, AtHourly} THEN "hourly"
    ELSE IF schedule \in {S_daily, AtDaily, AtMidnight} THEN "daily"
    ELSE IF schedule \in {S_weekly, AtWeekly} THEN "weekly"
    ELSE IF schedule \in {S_monthly, AtMonthly} THEN "monthly"
    ELSE "other"

\* C4: after the counters are collected, each frequency bucket counts the
\* jobs whose whole schedule is the bucket's fixed shape or symbolic name,
\* and 'other' counts all the rest.
C4_BucketsByWholeSchedule ==
    pc \in {"project", "print", "done"} =>
        \A b \in DOMAIN stats.by_frequency :
            stats.by_frequency[b] =
                Cardinality({k \in 1..Len(all_jobs) : WholeScheduleBucket(all_jobs[k].schedule) = b})

\* C5 as stated: with no job listed by any source all counters are zero and
\* the by-source and by-user maps have no key.
C5_EmptySummaryNoKeys ==
    (pc \in {"project", "print", "done"} /\ all_jobs = <<>>) =>
        /\ stats.total = 0 /\ stats.active = 0 /\ stats.inactive = 0
        /\ \A b \in DOMAIN stats.by_frequency : stats.by_frequency[b] = 0
        /\ DOMAIN stats.by_user = {}
        /\ DOMAIN stats.by_source = {}

\* C5 amended: with no job listed by any source all counters are zero, the
\* by-user map has no key, and the by-source map has one key for each source
\* that was consulted, each with the count 0.
C5_EmptySummaryZeroKeys ==
    (pc \in {"project", "print", "done"} /\ all_jobs = <<>>) =>
        /\ stats.total = 0 /\ stats.active = 0 /\ stats.inactive = 0
        /\ \A b \in DOMAIN stats.by_frequency : stats.by_frequency[b] = 0
        /\ DOMAIN stats.by_user = {}
        /\ DOMAIN stats.by_source = {Sources(is_root)[k] : k \in 1..Len(Sources(is_root))}
        /\ \A s \in DOMAIN stats.by_source : stats.by_source[s] = 0

\* C5 witness: a run as root that is over and found no job in any of the
\* four sources.
C5_Witness == pc = "done" /\ all_jobs = <<>> /\ is_root /\ printed = <<>>

-----------------------------------------------------------------------------
(* Properties of the label and the bucket (SpecFmt).                       *)

\* a valid numeric schedule string of five fields
ValidNumeric(s) == s # <<>> /\ s[1] # AT /\ IsValidSchedule(s)

\* the six shapes _format_schedule has a label for
WellKnown(s) ==
    Split(s) \in {Split(S_daily), Split(S_hourly), Split(S_minute), Split(S_every5),
                  Split(S_weekly), Split(S_monthly)}

\* C9 as stated: for every valid five-field schedule string the output of
\* _format_schedule is a valid schedule string that parses to the same
\* schedule as the input (weekday 7 taken as 0).
C9_FormatRoundTrips ==
    \A i \in 1..Len(fmt.label) :
        ValidNumeric(fmt.in[i]) =>
            /\ IsValidSchedule(fmt.label[i])
            /\ ParseSchedule(fmt.label[i]) = ParseSchedule(fmt.in[i])

\* C9 amended: for every valid five-field schedule string that is not one of
\* the six well-known shapes the output of _format_schedule is the five
\* fields joined by single blanks, a valid schedule string that parses to
\* the same schedule as the input (weekday 7 taken as 0); for the six
\* well-known shapes the output is a display label, which is no schedule
\* string.
C9_FormatRoundTripsUnlessLabelled ==
    \A i \in 1..Len(fmt.label) :
        ValidNumeric(fmt.in[i]) =>
            IF WellKnown(fmt.in[i])
            THEN ~IsValidSchedule(fmt.label[i])
            ELSE /\ fmt.label[i] = Join(Split(fmt.in[i]), SP)
                 /\ IsValidSchedule(fmt.label[i])
                 /\ ParseSchedule(fmt.label[i]) = ParseSchedule(fmt.in[i])

\* C9 witness: a valid schedule with weekday 7 and wider gaps, not a
\* well-known shape, was formatted and the output differs from the input.
C9_Witness ==
    /\ fmt.label # <<>>
    /\ ValidNumeric(fmt.in[1]) /\ ~WellKnown(fmt.in[1])
    /\ Split(fmt.in[1])[NFields] = <<"7">>
    /\ fmt.label[1] # fmt.in[1]

\* two numeric schedules that differ only in weekday 7 against 0
SundayTwins(a, b) ==
    /\ ValidNumeric(a) /\ ValidNumeric(b)
    /\ SubSeq(Split(a), 1, 4) = SubSeq(Split(b), 1, 4)
    /\ Split(a)[NFields] = <<"7">>
    /\ Split(b)[NFields] = <<"0">>

\* C10: two schedules that differ only in weekday 7 against 0 get the same
\* display label and the same frequency bucket.
C10_Sunday7Like0 ==
    \A i, j \in 1..Len(fmt.label) :
        SundayTwins(fmt.in[i], fmt.in[j]) =>
            /\ fmt.label[i] = fmt.label[j]
            /\ fmt.bucket[i] = fmt.bucket[j]

-----------------------------------------------------------------------------
(* Properties of list_all_jobs (SpecList).                                 *)

\* what list_all_jobs would return from a fresh read of every store
FreshListing(cron_type) ==
    IF cron_type \in {"user", T_User} THEN UserJobs(crontab_user)
    ELSE IF cron_type = T_System
         THEN (IF ~is_root THEN <<>>
               ELSE LET tab == _load_system_crontabs(etc_crontab)
                    IN  IF tab.loaded THEN SystemJobs(tab.items) ELSE <<>>)
    ELSE IF cron_type = T_Periodic
         THEN (IF ~is_root THEN <<>> ELSE _list_periodic_jobs(periodic))
    ELSE IF cron_type = T_CronD
         THEN (IF ~is_root THEN <<>> ELSE _list_cron_d_jobs(cron_d))
    ELSE <<>>

\* C6: every list_all_jobs call returns the contents the backing store has
\* at the call, for every source (user, system, cron.d, periodic), also when
\* another process changed the store since the previous call.
C6_ListingReflectsLiveStore ==
    [][listed'.n # listed.n => listed'.jobs = FreshListing(listed'.cron_type)]_vars

-----------------------------------------------------------------------------
(* Properties of the job-creating handlers (SpecMut).                      *)

\* C7: no job-creating handler persists an entry whose schedule is not a
\* valid schedule expression: every schedule a handler wrote to a backing
\* store is valid.
C7_OnlyValidSchedulesPersisted ==
    \A i \in 1..Len(console.persisted) : IsValidSchedule(console.persisted[i])

\* C8: an add_job call whose schedule is not valid reports an error, does
\* not call write, and leaves the persisted user table as it was: no entry
\* with a clamped or substituted schedule is persisted by it.
C8_AddJobRejectsMalformed ==
    [][(calls' # calls /\ console'.op = "add_job" /\ console'.schedule # <<>>
            /\ ~IsValidSchedule(console'.schedule))
        => (console'.out = "error" /\ ~console'.wrote /\ crontab_user' = crontab_user)]_vars

\* C8 witness: after a job was persisted, add_job was given minute 60,
\* reported an error and wrote nothing.
C8_Witness ==
    /\ console.op = "add_job"
    /\ console.schedule = S_min60
    /\ console.out = "error"
    /\ crontab_user # <<>>
    /\ Len(user_cron) = Len(crontab_user) + 1

-----------------------------------------------------------------------------
(* Further properties of show_job_statistics (SpecStats).                  *)

\* C11: once the projection loop is over, whenever an enabled @daily job
\* with a handle has an entry in next_runs, every enabled @midnight job with
\* a handle of the same run has an entry too.
C11_MidnightProjectedLikeDaily ==
    Projected =>
        \A k, j \in 1..Len(all_jobs) :
            (/\ Eligible(all_jobs[k]) /\ all_jobs[k].schedule = AtMidnight
             /\ Eligible(all_jobs[j]) /\ all_jobs[j].schedule = AtDaily
             /\ EntriesOf(j) > 0)
            => EntriesOf(k) > 0

-----------------------------------------------------------------------------
(* Further properties of the readers (SpecList).                           *)

\* the records the line-oriented parser makes of the lines of a file
LineRecords(lines) ==
    Flatten([i \in 1..Len(lines) |-> ManualParseLine(lines[i], <<>>)])

\* C12: as root, when /etc/crontab exists, is not blank and its structured
\* parse fails, the first listing of the System source has one record for
\* each non-blank, non-comment line of seven fields, with the schedule, the
\* user and the command of the line.
C12_SystemFallsBackToLines ==
    [][(/\ listed.n = 0 /\ listed'.n = 1 /\ listed'.cron_type = T_System
        /\ is_root /\ etc_crontab.exists /\ ~etc_crontab.blank /\ ~etc_crontab.parses)
       => LET expect == LineRecords(etc_crontab.lines)
          IN  /\ Len(listed'.jobs) = Len(expect)
              /\ \A i \in 1..Len(expect) :
                    /\ listed'.jobs[i].schedule = expect[i].schedule
                    /\ listed'.jobs[i].user = expect[i].user
                    /\ listed'.jobs[i].command = expect[i].command]_vars

\* the records of jobs that come from the drop-in file name
RecordsFrom(jobs, name) == SelectSeq(jobs, LAMBDA r : r.source = Str_crond \o name)

\* a regular file of /etc/cron.d that the reader does not skip by name
Scanned(e) ==
    e.isfile /\ e.name \notin {Str_dot, Str_dotdot, Str_placeholder, Str_README}

\* C13: in a listing of /etc/cron.d as root, every scanned file whose
\* structured parse succeeds contributes one record with a handle for each
\* of its entries, whatever happens to the other files, and every scanned
\* file whose structured parse fails contributes exactly the records the
\* line-oriented parser makes of that file.
C13_ParseFailureKeepsScan ==
    [][(listed'.n # listed.n /\ listed'.cron_type = T_CronD /\ is_root /\ cron_d.exists)
       => \A i \in 1..Len(cron_d.entries) :
            LET e == cron_d.entries[i]
                recs == RecordsFrom(listed'.jobs, e.name)
            IN  Scanned(e) =>
                    IF e.parses
                    THEN /\ Len(recs) = Len(e.items)
                         /\ \A k \in 1..Len(recs) :
                                /\ recs[k].command = e.items[k].command
                                /\ recs[k].job # None
                    ELSE /\ recs = _manual_parse_cron_d_file(e, e.name)
                         /\ \A k \in 1..Len(recs) : recs[k].job = None]_vars

\* C13 witness: /etc/cron.d was listed with three files of which the middle
\* one failed the structured parse; the listing has the fallback record of
\* the middle file between the handle records of the first and the last.
C13_Witness ==
    /\ listed.n = 1 /\ listed.cron_type = T_CronD /\ is_root
    /\ Len(cron_d.entries) = 3
    /\ cron_d.entries[1].parses /\ ~cron_d.entries[2].parses /\ cron_d.entries[3].parses
    /\ Len(listed.jobs) = 3
    /\ listed.jobs[1].job # None /\ listed.jobs[2].job = None /\ listed.jobs[3].job # None
    /\ listed.jobs[3].source = Str_crond \o <<"h">>

\* C14: in a listing of /etc/cron.d as root no record comes from an entry
\* whose name starts with '.', from an entry named README, or from an entry
\* that is not a regular file.
C14_NoRecordFromDotfiles ==
    [][(listed'.n # listed.n /\ listed'.cron_type = T_CronD /\ is_root /\ cron_d.exists)
       => \A i \in 1..Len(cron_d.entries) :
            LET e == cron_d.entries[i]
            IN  (StartsWith(e.name, <<".">>) \/ e.name = <<"R", "E", "A", "D", "M", "E">>
                    \/ ~e.isfile)
                => RecordsFrom(listed'.jobs, e.name) = <<>>]_vars

\* C15 as stated: in a listing of /etc/cron.d as root the comment of every
\* record of a drop-in file begins with the name of the file.
C15_CommentBeginsWithFileName ==
    [][(listed'.n # listed.n /\ listed'.cron_type = T_CronD /\ is_root /\ cron_d.exists)
       => \A i \in 1..Len(cron_d.entries) :
            LET recs == RecordsFrom(listed'.jobs, cron_d.entries[i].name)
            IN  \A k \in 1..Len(recs) : StartsWith(recs[k].comment, cron_d.entries[i].name)]_vars

\* C15 amended: the comment of a record of the structured parse is the file
\* name, a colon, a blank and the entry's own comment; the comment of a
\* record of the line-oriented parser is 'Aus ' followed by the file name.
C15_CommentNamesFile ==
    [][(listed'.n # listed.n /\ listed'.cron_type = T_CronD /\ is_root /\ cron_d.exists)
       => \A i \in 1..Len(cron_d.entries) :
            LET e == cron_d.entries[i]
                recs == RecordsFrom(listed'.jobs, e.name)
            IN  \A k \in 1..Len(recs) :
                    IF recs[k].job # None
                    THEN recs[k].comment = e.name \o <<":", " ">> \o e.items[k].comment
                    ELSE recs[k].comment = <<"A", "u", "s", " ">> \o e.name]_vars

\* C15 witness: a listing of /etc/cron.d holds a record of the structured
\* parse of file f and a record of the line-oriented parser of file g.
C15_Witness ==
    /\ listed.n = 1 /\ listed.cron_type = T_CronD /\ is_root
    /\ \E k \in 1..Len(listed.jobs) :
        /\ listed.jobs[k].job # None
        /\ listed.jobs[k].comment = <<"f", ":", " ", "c">>
    /\ \E k \in 1..Len(listed.jobs) :
        /\ listed.jobs[k].job = None
        /\ listed.jobs[k].comment = <<"A", "u", "s", " ", "g">>

\* an entry of a periodic directory the reader makes a record of
Qualifies(e) ==
    /\ e.isfile /\ e.exec /\ Head(e.name) # "."
    /\ e.readable /\ e.header = <<"#", "!">>

\* C16: in a listing of the periodic directories as root, the records of
\* each period are, in directory order, exactly one per entry that is a
\* regular executable file whose name does not start with '.' and whose first
\* two bytes are '#!'; each is enabled, has no handle, user root and schedule
\* '@<period>'; an entry that cannot be read gives no record and the entries
\* after it are still scanned.
C16_PeriodicRecordIffScript ==
    [][(listed'.n # listed.n /\ listed'.cron_type = T_Periodic /\ is_root)
       => /\ \A p \in 1..Len(Periods) :
                LET recs == SelectSeq(listed'.jobs,
                                      LAMBDA r : r.source = Str_periodic \o Periods[p])
                    ok == IF periodic[p].exists
                          THEN SelectSeq(periodic[p].entries, Qualifies) ELSE <<>>
                IN  /\ Len(recs) = Len(ok)
                    /\ \A k \in 1..Len(recs) :
                        /\ recs[k].command =
                              <<"/", "e", "t", "c", "/", "c", "r", "o", "n", ".">>
                                  \o Periods[p] \o <<"/">> \o ok[k].name
                        /\ recs[k].schedule = <<"@">> \o Periods[p]
                        /\ recs[k].enabled
                        /\ recs[k].job = None
                        /\ recs[k].user = <<"r", "o", "o", "t">>
          /\ \A i \in 1..Len(listed'.jobs) :
                \E p \in 1..Len(Periods) : listed'.jobs[i].source = Str_periodic \o Periods[p]]_vars

\* C16 witness: the periodic directories were listed while /etc/cron.daily
\* held an unreadable executable script before the script z: the listing is
\* the hourly script, then z, then the monthly script.
C16_Witness ==
    /\ listed.n = 1 /\ listed.cron_type = T_Periodic /\ is_root
    /\ periodic = PerOdd
    /\ Len(listed.jobs) = 3
    /\ listed.jobs[2].command = <<"/", "e", "t", "c", "/", "c", "r", "o", "n", ".", "d", "a", "i", "l", "y", "/", "z">>
    /\ listed.jobs[2].schedule = <<"@", "d", "a", "i", "l", "y">>
    /\ listed.jobs[2].enabled /\ listed.jobs[2].job = None

\* the place of a record's source in the order User, System, DropIn,
\* Periodic, and the place of its period in hourly, daily, weekly, monthly
SourceRank(r) ==
    IF r.source = <<"u", "s", "e", "r">> THEN 1
    ELSE IF r.source = <<"s", "y", "s", "t", "e", "m">> THEN 2
    ELSE IF StartsWith(r.source, <<"c", "r", "o", "n", ".", "d", "/">>) THEN 3
    ELSE 4
PeriodRank(r) ==
    IF r.source = Str_periodic \o Str_hourly THEN 1
    ELSE IF r.source = Str_periodic \o Str_daily THEN 2
    ELSE IF r.source = Str_periodic \o Str_weekly THEN 3
    ELSE IF r.source = Str_periodic \o Str_monthly THEN 4
    ELSE 0

\* the listing of the source at a place of the fixed order
ListingOfRank(k) ==
    list_all_jobs(IF k = 1 THEN T_User ELSE IF k = 2 THEN T_System
                  ELSE IF k = 3 THEN T_CronD ELSE T_Periodic)

\* the statistics have collected all_jobs
Collected == pc \in {"project", "print", "done"}

\* C17: the aggregated list of the statistics holds the records of the user
\* table, then of /etc/crontab, then of /etc/cron.d, then of the periodic
\* directories in the order hourly, daily, weekly, monthly, and the records
\* of each source in the order of its own listing; the match groups of a
\* search follow the same order of sources.
C17_SourcesInFixedOrder ==
    /\ Collected =>
        /\ \A i, j \in 1..Len(all_jobs) :
              i < j => /\ SourceRank(all_jobs[i]) <= SourceRank(all_jobs[j])
                       /\ SourceRank(all_jobs[i]) = 4 => PeriodRank(all_jobs[i]) <= PeriodRank(all_jobs[j])
        /\ \A k \in 1..4 :
              SelectSeq(all_jobs, LAMBDA r : SourceRank(r) = k) = ListingOfRank(k)
    /\ (pc = "searched" /\ search.out # "") =>
        /\ Len(search.matches) = (IF is_root THEN 4 ELSE 1)
        /\ \A k \in 1..Len(search.matches) :
              \A i \in 1..Len(search.matches[k]) : SourceRank(search.matches[k][i]) = k

\* C17 witness: as root the statistics have collected a user job, an
\* /etc/crontab job, two /etc/cron.d jobs, a daily and a weekly script.
C17_Witness ==
    /\ Collected /\ is_root
    /\ Len(all_jobs) = 6
    /\ [i \in 1..6 |-> SourceRank(all_jobs[i])] = <<1, 2, 3, 3, 4, 4>>
    /\ PeriodRank(all_jobs[5]) = 2 /\ PeriodRank(all_jobs[6]) = 3

\* the number of records of jobs with the command c
CountOf(jobs, c) == Cardinality({i \in 1..Len(jobs) : jobs[i].command = c})

\* C18: the aggregated list of the statistics has as many records as the
\* listings of its sources together, the total counts every one of them,
\* and a command that is listed by two sources is there once for each.
C18_NoDeduplication ==
    Collected =>
        /\ Len(all_jobs) = Len(ListingOfRank(1)) + Len(ListingOfRank(2))
                              + Len(ListingOfRank(3)) + Len(ListingOfRank(4))
        /\ stats.total = Len(all_jobs)
        /\ stats.active + stats.inactive = Len(all_jobs)
        /\ \A i \in 1..Len(all_jobs) :
              CountOf(all_jobs, all_jobs[i].command)
                = CountOf(ListingOfRank(1), all_jobs[i].command)
                  + CountOf(ListingOfRank(2), all_jobs[i].command)
                  + CountOf(ListingOfRank(3), all_jobs[i].command)
                  + CountOf(ListingOfRank(4), all_jobs[i].command)

\* C18 witness: the command s is in the user table and in /etc/crontab, and
\* the aggregated list holds it twice.
C18_Witness ==
    /\ Collected /\ is_root
    /\ Len(all_jobs) >= 2
    /\ all_jobs[1].command = <<"s">> /\ all_jobs[2].command = <<"s">>
    /\ SourceRank(all_jobs[1]) = 1 /\ SourceRank(all_jobs[2]) = 2
    /\ stats.total = Len(all_jobs)

\* needle is in hay when letters are compared without their case
InIgnoringCase(needle, hay) ==
    \E i \in 1..(Len(hay) - Len(needle) + 1) :
        \A j \in 1..Len(needle) : LowerChar(hay[i + j - 1]) = LowerChar(needle[j])

\* C19: a search with a keyword reports, for each source in turn, exactly
\* the jobs of its listing whose command or comment holds the keyword,
\* letters compared without their case, in the order of the listing; it
\* changes no table, no file and no directory.
C19_SearchMatchesSubstring ==
    [][(pc' = "searched" /\ search'.answer.given /\ search'.answer.text # <<>>)
       => /\ Len(search'.matches) = (IF is_root THEN 4 ELSE 1)
          /\ \A k \in 1..Len(search'.matches) :
                search'.matches[k] =
                    SelectSeq(ListingOfRank(k),
                              LAMBDA r : \/ InIgnoringCase(search'.answer.text, r.command)
                                         \/ InIgnoringCase(search'.answer.text, r.comment))
          /\ UNCHANGED <<user_cron, system_cron, crontab_user, etc_crontab, cron_d,
                         periodic>>]_vars

\* C19 witness: as root the keyword JOB was searched; no command holds it,
\* the comment 'Hourly job' of the script in /etc/cron.hourly does.
C19_Witness ==
    /\ pc = "searched" /\ is_root
    /\ search.answer.text = <<"J", "O", "B">>
    /\ search.matches[1] = <<>>
    /\ Len(search.matches[4]) = 1
    /\ search.matches[4][1].comment = <<"H", "o", "u", "r", "l", "y", " ", "j", "o", "b">>
    /\ search.out = "Treffer"

\* C20: a search whose keyword prompt was answered with the empty text, or
\* cancelled, reports no match and prints nothing.
C20_EmptyKeywordMatchesNothing ==
    (pc = "searched" /\ (~search.answer.given \/ search.answer.text = <<>>))
        => /\ \A k \in 1..Len(search.matches) : search.matches[k] = <<>>
           /\ search.out = ""

\* C20 witness: the empty text was searched while the user table held a
\* job.
C20_Witness ==
    /\ pc = "searched"
    /\ search.answer.given /\ search.answer.text = <<>>
    /\ user_cron # <<>>
    /\ search.matches = <<>>

-----------------------------------------------------------------------------
(* Properties of the calendar arithmetic of the except branch (SpecStats). *)

\* the start of the day of an instant
DayStart(t) == t - (t % TDay)

\* the entries of next_runs that the except branch computed for jobs with
\* the schedule s (job.schedule() raises for every job when croniter is
\* missing)
ComputedFor(s) ==
    {i \in 1..Len(next_runs) : ~croniter /\ all_jobs[next_runs[i].src].schedule = s}

\* C21: the instant computed for an @weekly job is on a Sunday, in the
\* first second of the day, 1 to 7 days after the start of the day of the
\* clock reading it was computed from, and 7 days after it when that day is
\* a Sunday.
C21_WeeklyIsNextSunday ==
    \A i \in ComputedFor(AtWeekly) :
        LET t == next_runs[i].t
            days == (DayStart(t) - DayStart(next_runs[i].at)) \div TDay
        IN  /\ Weekday(t) = 6
            /\ t % TDay < TSecond
            /\ days \in 1..7
            /\ Weekday(next_runs[i].at) = 6 => days = 7
\* C22: the instant computed for an @monthly job is in the first second of
\* the first day of a month; from a clock reading in December that month is
\* January of the next year, from a reading in any other month it is the
\* next month of the same year.
C22_MonthlyIsFirstOfNextMonth ==
    \A i \in ComputedFor(AtMonthly) :
        LET t == next_runs[i].t
            at == next_runs[i].at
        IN  /\ t \div TDay = DayNumber(YearOf(t), MonthOf(t), 1)
            /\ t % TDay < TSecond
            /\ IF MonthOf(at) = 12
               THEN YearOf(t) = YearOf(at) + 1 /\ MonthOf(t) = 1
               ELSE YearOf(t) = YearOf(at) /\ MonthOf(t) = MonthOf(at) + 1

\* C22 witness: the run is over and the instant of an @monthly job was
\* computed from a reading in December 2024: it is 1 January 2025.
C22_Witness ==
    /\ pc = "done"
    /\ \E i \in ComputedFor(AtMonthly) :
        /\ MonthOf(next_runs[i].at) = 12 /\ YearOf(next_runs[i].at) = 2024
        /\ next_runs[i].t \div TDay = DayNumber(2025, 1, 1)

-----------------------------------------------------------------------------
(* Properties of the line-oriented parser (SpecList).                      *)

\* the lines that are not blank, are no comment and have seven tokens or more
EntryLines(lines) ==
    SelectSeq(lines, LAMBDA l : /\ Split(l) # <<>>
                                /\ Head(Head(Split(l))) # "#"
                                /\ Len(Split(l)) >= 7)

\* c is the rest of the line l after its first six tokens: an end piece of l
\* without its trailing whitespace that starts with the seventh token, the
\* piece before it holding the first six tokens and nothing else
IsRemainder(c, l) ==
    LET toks == Split(l)
        body == SubSeq(l, 1, CHOOSE n \in 0..Len(l) :
                                /\ n = 0 \/ ~IsSpace(l[n])
                                /\ \A j \in (n + 1)..Len(l) : IsSpace(l[j]))
    IN  \E k \in 1..Len(body) :
            /\ c = SubSeq(body, k, Len(body))
            /\ ~IsSpace(body[k])
            /\ Split(SubSeq(body, 1, k - 1)) = SubSeq(toks, 1, 6)

\* C23: in a listing of /etc/cron.d as root, a file that is read by the
\* line-oriented parser contributes one record for each of its lines that is
\* not blank, does not start with '#' and has at least seven tokens, in the
\* order of the lines: the schedule is the first five tokens joined by single
\* blanks, the user the sixth token, the command the rest of the line with
\* the whitespace inside it kept; no other line contributes a record.
C23_FallbackSplitsFirstSix ==
    [][(listed'.n # listed.n /\ listed'.cron_type = T_CronD /\ is_root /\ cron_d.exists)
       => \A i \in 1..Len(cron_d.entries) :
            LET e == cron_d.entries[i]
                recs == RecordsFrom(listed'.jobs, e.name)
                ls == EntryLines(e.lines)
            IN  (Scanned(e) /\ ~e.parses /\ e.readable) =>
                    /\ Len(recs) = Len(ls)
                    /\ \A k \in 1..Len(recs) :
                        /\ recs[k].schedule = Join(SubSeq(Split(ls[k]), 1, 5), <<" ">>)
                        /\ recs[k].user = Split(ls[k])[6]
                        /\ IsRemainder(recs[k].command, ls[k])]_vars

\* C23 witness: the file l was listed; of its six lines the indented entry
\* and the entry with seven tokens gave a record, the first with the command
\* 'y  z<TAB>-v'.
C23_Witness ==
    /\ listed.n = 1 /\ listed.cron_type = T_CronD /\ is_root
    /\ cron_d = DirLines
    /\ Len(listed.jobs) = 2
    /\ listed.jobs[1].schedule = <<"5", " ", "*", " ", "*", " ", "*", " ", "1">>
    /\ listed.jobs[1].user = <<"m", "e">>
    /\ listed.jobs[1].command = <<"y", " ", " ", "z", "\t", "-", "v">>
    /\ listed.jobs[2].command = <<"x">>

-----------------------------------------------------------------------------
(* Properties of the displayed next-run list (SpecStats).                  *)

\* ascending by instant, entries with equal instants in the order of their
\* jobs in all_jobs
StableSorted(runs) ==
    \A i, j \in 1..Len(runs) :
        i < j => \/ runs[i].t < runs[j].t
                 \/ runs[i].t = runs[j].t /\ runs[i].src < runs[j].src

\* the first ten entries of next_runs
FirstTen == SubSeq(next_runs, 1, IF Len(next_runs) < 10 THEN Len(next_runs) ELSE 10)

\* the jobs of a sequence of entries, in its order
JobsOf(runs) == [i \in 1..Len(runs) |-> runs[i].src]

\* the sort keeps every entry and leaves next_runs in stable ascending order
SortStep ==
    (pc = "project" /\ pc' = "print") =>
        /\ Len(next_runs') = Len(next_runs)
        /\ {next_runs'[i] : i \in 1..Len(next_runs')} = {next_runs[i] : i \in 1..Len(next_runs)}
        /\ StableSorted(next_runs')

\* C24 as stated: the sort is ascending and stable, and when the run is over
\* the displayed lines are the first ten entries of the sorted list.
C24_DisplaysFirstTen ==
    [][/\ SortStep
       /\ pc' = "done" => JobsOf(PrintedRuns') = JobsOf(FirstTen')]_vars

\* C24 amended: the sort is ascending and stable, at most ten lines are
\* displayed, and when the run is over the displayed lines are, in the order
\* of the sorted list, those of its first ten entries whose instant had not
\* passed when their turn to be displayed came.
C24_DisplaysFirstTenStillAhead ==
    [][/\ SortStep
       /\ Len(PrintedRuns') <= 10
       /\ pc' = "done" =>
            /\ JobsOf(PrintedRuns') =
                  SelectSeq(JobsOf(FirstTen'),
                            LAMBDA k : \E i \in 1..Len(PrintedRuns') : PrintedRuns'[i].src = k)
            /\ \A i \in 1..Len(PrintedRuns') :
                  \E j \in 1..Len(FirstTen') :
                      /\ FirstTen'[j].src = PrintedRuns'[i].src
                      /\ FirstTen'[j].t = PrintedRuns'[i].t
                      /\ PrintedRuns'[i].t > PrintedRuns'[i].at
            /\ \A j \in 1..Len(FirstTen') :
                  (\A i \in 1..Len(PrintedRuns') : PrintedRuns'[i].src # FirstTen'[j].src)
                      => FirstTen'[j].t <= now']_vars

\* C24 witness: the run is over, twelve entries were projected and sorted
\* into another order than that of their jobs, ten lines were displayed, and
\* two displayed lines with equal instants are in the order of their jobs.
C24_Witness ==
    /\ pc = "done"
    /\ Len(next_runs) = 12 /\ Len(PrintedRuns) = 10
    /\ \E i \in 1..11 : next_runs[i].src > next_runs[i + 1].src
    /\ \E i \in 1..9 :
        /\ PrintedRuns[i].t = PrintedRuns[i + 1].t
        /\ PrintedRuns[i].src < PrintedRuns[i + 1].src

-----------------------------------------------------------------------------
(* Further properties of the job-creating handlers (SpecMut).              *)

\* C25: an add_job call that ends in the error branch leaves the loaded
\* user table as it was before the call.
C25_FailedAddLeavesNoTrace ==
    [][(calls' = calls + 1 /\ console'.op = "add_job" /\ console'.out = "error")
       => user_cron' = user_cron]_vars

\* C26: an import that writes the user table adds as many entries to the
\* persisted user crontab as it reports imported: an entry of the file whose
\* schedule was rejected is not written.
C26_ImportWritesWhatItCounts ==
    [][(calls' = calls + 1 /\ console'.op = "import_jobs" /\ console'.wrote)
       => Len(crontab_user') - Len(crontab_user) = console'.imported]_vars

-----------------------------------------------------------------------------
(* Properties of the main menu (SpecMenu).                                 *)

\* the handler that belongs to a menu item
HandlerOf(choice) ==
    IF choice = <<>> THEN "break"
    ELSE IF choice = M_JobsAnzeigen THEN "display_jobs_table"
    ELSE IF choice = M_JobHinzufuegen THEN "add_job"
    ELSE IF choice = M_JobBearbeiten THEN "edit_job"
    ELSE IF choice = M_JobsDurchsuchen THEN "search_jobs"
    ELSE IF choice = M_JobStatistiken THEN "show_job_statistics"
    ELSE IF choice = M_JobLogsAnzeigen THEN "view_job_logs"
    ELSE IF choice = M_JobUeberwachung THEN "monitor_jobs"
    ELSE IF choice = M_Benachrichtigungen THEN "configure_notifications"
    ELSE IF choice = M_JobsExportieren THEN "export_jobs"
    ELSE IF choice = M_JobsImportieren THEN "import_jobs"
    ELSE IF choice = M_CrontabValidieren THEN "validate_crontab"
    ELSE IF choice = M_BackupErstellen THEN "create_backup"
    ELSE IF choice = M_Aktualisieren THEN "show_main_menu"
    ELSE IF choice = M_SystemJobHinzufuegen THEN "add_system_job"
    ELSE "break"

\* C27: every selection starts the handler that belongs to its menu item,
\* and two selections of different menu items never start the same handler.
C27_DispatchOneToOne ==
    /\ \A i \in 1..Len(menu) : menu[i].handler = HandlerOf(menu[i].choice)
    /\ \A i, j \in 1..Len(menu) :
        (menu[i].choice # <<>> /\ menu[j].choice # <<>> /\ menu[i].handler = menu[j].handler)
            => menu[i].choice = menu[j].choice

-----------------------------------------------------------------------------
(* Properties of a manager without root privileges (SpecStats).            *)

\* C28: without root privileges list_all_jobs returns no record for the
\* system crontab, /etc/cron.d and the periodic directories, get_cron_type
\* offers the user crontab only, the statistics and the search consult the
\* user crontab only, and every record they hold has the source 'user'.
C28_NoSystemRecordsWithoutRoot ==
    ~is_root =>
        /\ list_all_jobs(T_System) = <<>>
        /\ list_all_jobs(T_CronD) = <<>>
        /\ list_all_jobs(T_Periodic) = <<>>
        /\ CronTypeChoices = <<T_User>>
        /\ \A i \in 1..Len(all_jobs) : all_jobs[i].source = <<"u", "s", "e", "r">>
        /\ DOMAIN stats.by_source \subseteq {T_User}
        /\ Len(search.matches) <= 1
        /\ \A k \in 1..Len(search.matches) :
              \A i \in 1..Len(search.matches[k]) :
                  search.matches[k][i].source = <<"u", "s", "e", "r">>

\* C28 witness: without root privileges the statistics ran to their end over
\* a user job while /etc/crontab, /etc/cron.d and /etc/cron.hourly held
\* jobs.
C28_Witness ==
    /\ ~is_root /\ pc = "done"
    /\ Len(all_jobs) = 1
    /\ etc_crontab.items # <<>>
    /\ cron_d.exists /\ cron_d.entries # <<>>
    /\ periodic[1].exists /\ periodic[1].entries # <<>>
    /\ stats.by_source[T_User] = 1

-----------------------------------------------------------------------------
(* Properties of _add_to_cron_d (SpecMut).                                 *)

\* how often the record r is among the jobs listed for the directory dir
TimesListed(r, dir) ==
    Cardinality({i \in 1..Len(_list_cron_d_jobs(dir)) : _list_cron_d_jobs(dir)[i] = r})

\* C29: a successful _add_to_cron_d only adds: every job entry listed for
\* /etc/cron.d before the call is still listed after it, and exactly one
\* entry more is listed.
C29_AddToCronDOnlyAdds ==
    [][(calls' = calls + 1 /\ console'.op = "_add_to_cron_d" /\ console'.out = "success")
        => /\ \A i \in 1..Len(_list_cron_d_jobs(cron_d)) :
                TimesListed(_list_cron_d_jobs(cron_d)[i], cron_d')
                    >= TimesListed(_list_cron_d_jobs(cron_d)[i], cron_d)
           /\ Len(_list_cron_d_jobs(cron_d')) = Len(_list_cron_d_jobs(cron_d)) + 1]_vars

-----------------------------------------------------------------------------
(* Consistency of the counters of show_job_statistics (SpecStats).         *)

\* the sum of the counts of a counter map
RECURSIVE SumOf(_)
SumOf(f) ==
    IF DOMAIN f = {} THEN 0
    ELSE LET k == CHOOSE x \in DOMAIN f : TRUE
         IN  f[k] + SumOf([x \in DOMAIN f \ {k} |-> f[x]])

\* C30: after the statistics are collected the counters partition the job
\* set: total = active + inactive, and total is the sum of the by-source
\* counts, of the by-user counts and of the six frequency buckets.
C30_CountersPartitionJobs ==
    Collected =>
        /\ stats.total = Len(all_jobs)
        /\ stats.total = stats.active + stats.inactive
        /\ stats.total = SumOf(stats.by_source)
        /\ stats.total = SumOf(stats.by_user)
        /\ stats.total = SumOf(stats.by_frequency)
        /\ DOMAIN stats.by_frequency
              = {"minute", "hourly", "daily", "weekly", "monthly", "other"}

\* C30 witness: statistics collected as root over jobs of several sources
\* and users, one of them disabled and one in the bucket 'other'.
C30_Witness ==
    /\ Collected
    /\ stats.total >= 3
    /\ stats.inactive >= 1
    /\ stats.by_frequency["other"] >= 1
    /\ Cardinality(DOMAIN stats.by_user) >= 2
    /\ Cardinality({s \in DOMAIN stats.by_source : stats.by_source[s] > 0}) >= 2

====
